---- MODULE Spec2Model ----
(***************************************************************************)
(* The contour retopology operator (CGCOOKIE_OT_retopo_contour) as a state *)
(* machine: invoke starts a session, modal handles one event per step.     *)
(* The topology graph self.cut_paths is a list object on a heap of list    *)
(* objects, so that copy.deepcopy and the assignment self.cut_paths =      *)
(* cut_data keep their reference semantics.  Geometry is reduced to what   *)
(* the operator itself reads and writes: per cut the seam shift and the    *)
(* vertex count, per path the counts, the locks and the selection flag.    *)
(***************************************************************************)
EXTENDS Integers, Sequences, FiniteSets, TLC

VARIABLES
    running,             \* the modal handler is registered (a session is open)
    result,              \* what invoke / modal returned last
    mode,                \* self.mode
    modal_state,         \* self.modal_state
    heap,                \* list objects: oid -> the list of paths it holds
    cut_paths,           \* self.cut_paths: the oid of the live list
    contour_undo_cache,  \* the module-level undo stack
    selected,            \* self.selected
    selected_path,       \* self.selected_path
    hover_target,        \* self.hover_target
    force_new,           \* self.force_new
    snap,                \* self.snap
    draw_cache,          \* len(self.draw_cache)
    hot_key,             \* self.hot_key
    cut_lines,           \* len(self.cut_lines): the cut lines being placed
    dest_bme,            \* the paths pushed into the destination mesh
    contour_mesh_cache,  \* the module-level cache of the surface conversion
    calls,               \* the calls the latest event made on the stroke's
                         \* path and on the mesh cache
    cursor_cuts,         \* the indices of the cuts whose centres the latest
                         \* event averaged into scene.cursor_location
    events,              \* events handled so far
    last,                \* the handler that took the latest event
    timer,               \* self._timer is set: the session holds a message timer
    wm_timers,           \* the timers this operator has registered with the
                         \* window manager and not removed
    pre_action           \* the graph the latest snapshotting handler found

vars == <<running, result, mode, modal_state, heap, cut_paths, contour_undo_cache,
          selected, selected_path, hover_target, force_new, snap, draw_cache,
          hot_key, cut_lines, dest_bme, contour_mesh_cache, calls, cursor_cuts, events,
          last, timer, wm_timers,
          pre_action>>

----------------------------------------------------------------------------
(* Bounds and settings *)

\* at most MaxEvents events (operator calls, key and mouse events) arrive
MaxEvents == 8
\* the last of them goes to a handler that acts on the selection; every
\* other event arrives among the first MaxSetup
MaxSetup == 7
\* settings.undo_depth (an IntProperty in 0..100)
undo_depth == 2
\* settings.vertex_count and settings.ring_count at their minimum
vertex_count == 3
ring_count == 3
\* len(self.draw_cache) > 10 makes a stroke long enough
MinStroke == 10
\* a guide stroke records at most MaxPoints screen points
MaxPoints == 11
\* the bits of the mantissa of a Python float
mantissa_bits == 53

Oids == 0..(undo_depth + 1)
\* a list object of the heap, and the slot of none
Obj(g) == [used |-> TRUE, list |-> g]
Free == [used |-> FALSE, list |-> <<>>]

----------------------------------------------------------------------------
(* Object references held by the operator.  A path or cut of the live      *)
(* list is named by its position; an object that is no longer (or never    *)
(* was) in the live list is dead: still a truthy Python object, in no list *)

None == [k |-> "none", p |-> 0, c |-> 0]
PathRef(i) == [k |-> "path", p |-> i, c |-> 0]
CutRef(i, j) == [k |-> "cut", p |-> i, c |-> j]
\* cut j of the path object that was at position i when it left cut_paths
DeadCut(i, j) == [k |-> "deadcut", p |-> i, c |-> events, j |-> j]
\* a cut that is in no path at all; j, the place it had, and the event of
\* its leaving tell one such cut from another
GoneCut(j) == DeadCut(0, j)
\* what is followed of a path object that left cut_paths: its counts, locks
\* and head, and the number of its cuts
Stale(path) ==
    [cuts |-> Len(path.cuts), existing_head |-> path.existing_head,
     seg_lock |-> path.seg_lock, ring_lock |-> path.ring_lock,
     segments |-> path.segments, ring_segments |-> path.ring_segments]
\* the path object that was at position i when it left cut_paths; the
\* position and the event of its leaving tell one such object from another
DeadPath(path, i) == [k |-> "deadpath", p |-> i, c |-> events, obj |-> Stale(path)]
\* a snap pair (path, cut) whose path left cut_paths: the cut is cut j of the
\* path ("deadcut"), its existing head ("deadhead") or in it no longer
\* ("deadlost")
DeadEnd(path, i, kind, j) ==
    [k |-> kind, p |-> i, c |-> events, j |-> j, obj |-> Stale(path)]
DeadEnds == {"deadcut", "deadhead", "deadlost"}
\* a snap pair (path, cut) whose path is at position i and whose cut left it
LostEnd(i) == [k |-> "lostcut", p |-> i, c |-> 0]
\* the path object a snap pair names, as selected_path holds it
SeriesOf(sn) == [k |-> "deadpath", p |-> sn.p, c |-> sn.c, obj |-> sn.obj]
\* r and q name the same path object outside the live list
SameObject(r, q) ==
    /\ "obj" \in DOMAIN r /\ "obj" \in DOMAIN q
    /\ r.p = q.p /\ r.c = q.c
\* the reference r once the object q names has become o
Rebind(r, q, o) == IF SameObject(r, q) THEN [r EXCEPT !.obj = o] ELSE r
\* r is a cut of the path object q names, a path outside the live list
CutOf(r, q) ==
    /\ r.k = "deadcut" /\ r.p # 0
    /\ "obj" \in DOMAIN q /\ r.p = q.p /\ r.c = q.c
NewCut == [k |-> "newcut", p |-> 0, c |-> 0]

IsCutLine(r) == r.k \in {"cut", "deadcut", "newcut"}
IsSeries(r) == r.k \in {"path", "deadpath"}

Live == heap[cut_paths].list

----------------------------------------------------------------------------
(* Seam shift: a Python float, the binary floating-point number of value   *)
(* s * m * 2^e with sign s and a mantissa m of mantissa_bits bits, rounded *)
(* to nearest, ties to even, after every operation.  The mantissa is a     *)
(* natural number written as the sequence of its digits to the base 2^15,  *)
(* lowest digit first and no zero as highest digit                         *)

Abs(x) == IF x < 0 THEN -x ELSE x

RECURSIVE Pow2(_)
Pow2(n) == IF n = 0 THEN 1 ELSE 2 * Pow2(n - 1)

\* the base of the digits, and the bits of one digit
Digits == Pow2(15)
DigitBits == CHOOSE k \in 1..30 : Pow2(k) = Digits

\* a without zeros as highest digits
RECURSIVE Trim(_)
Trim(a) ==
    IF a # <<>> /\ a[Len(a)] = 0 THEN Trim(SubSeq(a, 1, Len(a) - 1)) ELSE a

\* a + b
BigAdd(a, b) ==
    LET Digit(c, i) == IF i <= Len(c) THEN c[i] ELSE 0
        RECURSIVE AddFrom(_, _)
        AddFrom(i, carry) ==
            IF i > Len(a) /\ i > Len(b) THEN (IF carry = 0 THEN <<>> ELSE <<carry>>)
            ELSE LET t == Digit(a, i) + Digit(b, i) + carry
                 IN  <<t % Digits>> \o AddFrom(i + 1, t \div Digits)
    IN  AddFrom(1, 0)

\* a - b for a >= b
BigSub(a, b) ==
    LET RECURSIVE SubFrom(_, _)
        SubFrom(i, borrow) ==
            IF i > Len(a) THEN <<>>
            ELSE LET t == a[i] - (IF i <= Len(b) THEN b[i] ELSE 0) - borrow
                 IN  IF t < 0 THEN <<t + Digits>> \o SubFrom(i + 1, 1)
                     ELSE <<t>> \o SubFrom(i + 1, 0)
    IN  Trim(SubFrom(1, 0))

\* a < b
BigLess(a, b) ==
    LET RECURSIVE LessFrom(_)
        LessFrom(i) ==
            IF i = 0 THEN FALSE
            ELSE IF a[i] # b[i] THEN a[i] < b[i]
            ELSE LessFrom(i - 1)
    IN  IF Len(a) # Len(b) THEN Len(a) < Len(b) ELSE LessFrom(Len(a))

\* a * k for one digit k
BigTimes(a, k) ==
    LET RECURSIVE TimesFrom(_, _)
        TimesFrom(i, carry) ==
            IF i > Len(a) THEN (IF carry = 0 THEN <<>> ELSE <<carry>>)
            ELSE LET t == a[i] * k + carry
                 IN  <<t % Digits>> \o TimesFrom(i + 1, t \div Digits)
    IN  IF k = 0 THEN <<>> ELSE TimesFrom(1, 0)

\* quotient and remainder of a by d, for 0 < d < Digits
BigDiv(a, d) ==
    LET RECURSIVE DivFrom(_, _)
        DivFrom(i, rem) ==
            IF i = 0 THEN <<<<>>, rem>>
            ELSE LET t == rem * Digits + a[i]
                     rest == DivFrom(i - 1, t % d)
                 IN  <<Append(rest[1], t \div d), rest[2]>>
        r == DivFrom(Len(a), 0)
    IN  <<Trim(r[1]), r[2]>>

\* a * 2^n
ShiftLeft(a, n) ==
    LET b == BigTimes(a, Pow2(n % DigitBits))
    IN  IF b = <<>> THEN <<>> ELSE [i \in 1..(n \div DigitBits) |-> 0] \o b

Zero == [s |-> 0, m |-> <<>>, e |-> 0]

\* the float nearest to s * m * 2^e, ties to even
Round(s, m, e) ==
    LET RECURSIVE Bits(_)
        Bits(k) == IF k = 0 THEN 0 ELSE 1 + Bits(k \div 2)
        BitLength(a) == DigitBits * (Len(a) - 1) + Bits(a[Len(a)])
        \* the whole part of a / 2^k
        ShiftRight(a, k) ==
            BigDiv(SubSeq(a, k \div DigitBits + 1, Len(a)), Pow2(k % DigitBits))[1]
        n == BitLength(m) - mantissa_bits
        q == ShiftRight(m, n)
        r == BigSub(m, ShiftLeft(q, n))
        half == ShiftLeft(<<1>>, n - 1)
        up == BigLess(half, r) \/ (r = half /\ q[1] % 2 = 1)
        q1 == IF up THEN BigAdd(q, <<1>>) ELSE q
    IN  IF m = <<>> THEN Zero
        ELSE IF n <= 0
        THEN [s |-> s, m |-> ShiftLeft(m, -n), e |-> e + n]
        ELSE IF BitLength(q1) > mantissa_bits
        THEN [s |-> s, m |-> ShiftRight(q1, 1), e |-> e + n + 1]
        ELSE [s |-> s, m |-> q1, e |-> e + n]

\* x + y on floats
FAdd(x, y) ==
    IF x.s = 0 THEN y
    ELSE IF y.s = 0 THEN x
    ELSE LET e == IF x.e < y.e THEN x.e ELSE y.e
             a == ShiftLeft(x.m, x.e - e)
             b == ShiftLeft(y.m, y.e - e)
         IN  IF x.s = y.s THEN Round(x.s, BigAdd(a, b), e)
             ELSE IF BigLess(a, b) THEN Round(y.s, BigSub(b, a), e)
             ELSE Round(x.s, BigSub(a, b), e)

\* x * y on floats
FMul(x, y) ==
    LET RECURSIVE MulFrom(_)
        \* x.m times the digits j.. of y.m
        MulFrom(j) ==
            IF j > Len(y.m) THEN <<>>
            ELSE BigAdd(ShiftLeft(BigTimes(x.m, y.m[j]), DigitBits * (j - 1)),
                        MulFrom(j + 1))
    IN  Round(x.s * y.s, MulFrom(1), x.e + y.e)

\* n / d on integers, 0 < d and |n|, d < Digits: the quotient is taken to 5
\* digits after the point, and one bit more that stands for the rest of it
FDiv(n, d) ==
    LET qr == BigDiv(ShiftLeft(<<Abs(n)>>, 5 * DigitBits), d)
        sticky == IF qr[2] = 0 THEN 0 ELSE 1
    IN  IF n = 0 THEN Zero
        ELSE Round(IF n < 0 THEN -1 ELSE 1,
                   BigAdd(BigTimes(qr[1], 2), <<sticky>>), -(5 * DigitBits) - 1)

\* the literal 0.05 and its negation
Step(k) == FDiv(k, 20)

\* cut.shift += 0.05 (k = 1), cut.shift += -0.05 (k = -1)
AddSteps(q, k) == FAdd(q, Step(k))

\* new_shift = ring_segments / old_segments * cut.shift
Scale(q, new, old) == FMul(FDiv(new, old), q)

----------------------------------------------------------------------------
(* Sequence helpers *)

Last(s) == s[Len(s)]
Front(s) == SubSeq(s, 1, Len(s) - 1)
RemoveAt(s, i) == SubSeq(s, 1, i - 1) \o SubSeq(s, i + 1, Len(s))
InsertAt(s, i, x) == SubSeq(s, 1, i - 1) \o <<x>> \o SubSeq(s, i, Len(s))

----------------------------------------------------------------------------
(* Records of the topology graph *)

\* a ContourCutLine: seam shift and len(verts_simple)
Cut(sh, n) == [shift |-> sh, n |-> n]

\* a ContourCutSeries whose bridge faces were computed from its cuts; faces
\* holds the cuts the bridge faces were last computed from
Path(cuts, head, seglock, ringlock, segs, rsegs, sel) ==
    [cuts |-> cuts, existing_head |-> head, seg_lock |-> seglock,
     ring_lock |-> ringlock, segments |-> segs, ring_segments |-> rsegs,
     select |-> sel, faces |-> cuts]

\* path.connect_cuts_to_make_mesh: the bridge faces are computed from the
\* cuts the path holds now
connect_cuts_to_make_mesh(path) == [path EXCEPT !.faces = path.cuts]

\* cut.simplify_cross(n): resample the cut to n vertices
simplify_cross(cut, n) == [cut EXCEPT !.n = n]

\* path.do_select / path.deselect
do_select(path) == [path EXCEPT !.select = TRUE]
deselect(path) == [path EXCEPT !.select = FALSE]

\* for other_path in cut_paths: if other_path != keep: other_path.deselect()
DeselectOthers(g, keep) ==
    [i \in 1..Len(g) |-> IF i = keep THEN g[i] ELSE deselect(g[i])]

SnapEmpty == [k |-> "empty", p |-> 0, c |-> 0]

\* what a reference into the list g becomes when the list is replaced
Kill(r, g) ==
    IF r.k = "cut" THEN DeadCut(r.p, r.c)
    ELSE IF r.k = "path" THEN DeadPath(g[r.p], r.p)
    ELSE r

\* what the snap pair becomes when the list g it points into is replaced
KillSnap(sn, g) ==
    IF sn.k = "cut" THEN DeadEnd(g[sn.p], sn.p, "deadcut", sn.c)
    ELSE IF sn.k = "head" THEN DeadEnd(g[sn.p], sn.p, "deadhead", 0)
    ELSE IF sn.k = "lostcut" THEN DeadEnd(g[sn.p], sn.p, "deadlost", 0)
    ELSE sn

----------------------------------------------------------------------------
(* State Snapshot Manager *)

repeated_actions == {"LOOP_SHIFT", "PATH_SHIFT", "PATH_SEGMENTS", "LOOP_SEGMENTS"}

\* the oids the operator and the undo stack still reference
CacheOids(cache) == {cache[i].cut_data : i \in 1..Len(cache)}
Referenced(live, cache) == {live} \cup CacheOids(cache)

\* the undo stack by value: what each entry's list object holds, with the
\* entry's operator state and label
Stored(cache, h) ==
    [i \in 1..Len(cache) |->
        [list |-> h[cache[i].cut_data].list, state |-> cache[i].state,
         action |-> cache[i].action]]

\* objects nothing references are freed
Collect(h, live, cache) ==
    [o \in Oids |-> IF o \in Referenced(live, cache) THEN h[o] ELSE Free]

\* Object ids carry identity only: after the stack changes the objects are
\* renumbered in the order live list, oldest entry, ..., newest entry, an
\* object referenced twice keeping one number
FirstPos(seq, x) == CHOOSE i \in 1..Len(seq) : seq[i] = x /\ \A j \in 1..(i - 1) : seq[j] # x

Renumber(live, cache, h) ==
    LET order == <<live>> \o [i \in 1..Len(cache) |-> cache[i].cut_data]
        new(x) == FirstPos(order, x) - 1
    IN  [cut_paths |-> new(live),
         cache |-> [i \in 1..Len(cache) |-> [cache[i] EXCEPT !.cut_data = new(@)]],
         heap |-> [o \in Oids |->
                      IF \E i \in 1..Len(order) : new(order[i]) = o
                      THEN h[order[CHOOSE i \in 1..Len(order) : new(order[i]) = o]]
                      ELSE Free]]

Alloc(h) == CHOOSE o \in Oids : h[o] = Free /\ \A q \in Oids : h[q] = Free => o <= q

\* a copy that is the object itself
same_object(h, o) == [oid |-> o, heap |-> h]

\* a copy that is a new list object holding nothing
blank_copy(h, o) == [oid |-> Alloc(h), heap |-> [h EXCEPT ![Alloc(h)] = Obj(<<>>)]]

\* copy.deepcopy(self.cut_paths): a new list object that holds what o holds
deepcopy(h, o) == [oid |-> Alloc(h), heap |-> [h EXCEPT ![Alloc(h)] = h[o]]]

\* ContourStatePreserver(self): mode, modal state and the selection, the
\* selection kept by position in cut_paths
ContourStatePreserver ==
    [mode |-> mode, modal_state |-> modal_state,
     selected_path |-> IF selected_path.k = "path" THEN selected_path ELSE None,
     selected |-> IF selected.k \in {"cut", "path"} THEN selected ELSE None]

\* the eviction that spares the oldest entry and drops the one after it
keep_oldest(cache) == <<Head(cache)>> \o Tail(Tail(cache))

\* contour_undo_cache.pop(0)
pop_oldest(cache) == Tail(cache)

\* a handler that takes no snapshot
no_undo_snapshot(action) == [raised |-> FALSE, cache |-> contour_undo_cache, heap |-> heap]

\* create_undo_snapshot(action): the undo stack and the heap afterwards, or
\* raised when contour_undo_cache[-1] is read on an empty stack
create_undo_snapshot(action) ==
    IF action \in repeated_actions /\ contour_undo_cache = <<>>
    THEN [raised |-> TRUE, cache |-> contour_undo_cache, heap |-> heap]
    ELSE IF action \in repeated_actions /\ Last(contour_undo_cache).action = action
    THEN [raised |-> FALSE, cache |-> contour_undo_cache, heap |-> heap]
    ELSE
        LET copy == deepcopy(heap, cut_paths)
            cut_data == copy.oid
            h1 == copy.heap
            pushed == Append(contour_undo_cache,
                             [cut_data |-> cut_data, state |-> ContourStatePreserver,
                              action |-> action])
            kept == IF Len(pushed) > undo_depth THEN pop_oldest(pushed) ELSE pushed
            r == Renumber(cut_paths, kept, Collect(h1, cut_paths, kept))
        IN  [raised |-> FALSE, cache |-> r.cache, heap |-> r.heap]

\* the pop that takes the oldest entry
pop_first(cache) == [entry |-> Head(cache), rest |-> Tail(cache)]

\* contour_undo_cache.pop(): the entry taken and the stack left
pop_newest(cache) == [entry |-> Last(cache), rest |-> Front(cache)]

\* an undo_action that, with nothing to undo, pushes a blank operator state
undo_action_blank(cache, live, h, m, ms, sel, selp, hov, sn) ==
    IF Len(cache) > 0
    THEN LET e == Last(cache)
             r == Renumber(e.cut_data, Front(cache), Collect(h, e.cut_data, Front(cache)))
         IN  [cache |-> r.cache, cut_paths |-> r.cut_paths,
              heap |-> r.heap,
              mode |-> e.state.mode, modal_state |-> e.state.modal_state,
              selected |-> e.state.selected, selected_path |-> e.state.selected_path,
              hover_target |-> IF e.cut_data = live THEN hov ELSE Kill(hov, h[live].list),
              snap |-> IF e.cut_data = live THEN sn ELSE KillSnap(sn, h[live].list)]
    ELSE [cache |-> cache, cut_paths |-> live, heap |-> h, mode |-> m,
          modal_state |-> ms, selected |-> None, selected_path |-> None,
          hover_target |-> hov, snap |-> sn]

\* an undo_action that restores the mode of the snapshot and leaves
\* modal_state as it is
undo_action_keeps_modal_state(cache, live, h, m, ms, sel, selp, hov, sn) ==
    IF Len(cache) > 0
    THEN LET popped == pop_newest(cache)
             e == popped.entry
             r == Renumber(e.cut_data, popped.rest, Collect(h, e.cut_data, popped.rest))
         IN  [cache |-> r.cache, cut_paths |-> r.cut_paths,
              heap |-> r.heap,
              mode |-> e.state.mode, modal_state |-> ms,
              selected |-> e.state.selected, selected_path |-> e.state.selected_path,
              hover_target |-> IF e.cut_data = live THEN hov ELSE Kill(hov, h[live].list),
              snap |-> IF e.cut_data = live THEN sn ELSE KillSnap(sn, h[live].list)]
    ELSE [cache |-> cache, cut_paths |-> live, heap |-> h, mode |-> m,
          modal_state |-> ms, selected |-> sel, selected_path |-> selp,
          hover_target |-> hov, snap |-> sn]

\* undo_action(): the operator fields and the stack afterwards
undo_action(cache, live, h, m, ms, sel, selp, hov, sn) ==
    IF Len(cache) > 0
    THEN LET popped == pop_newest(cache)
             e == popped.entry
             r == Renumber(e.cut_data, popped.rest, Collect(h, e.cut_data, popped.rest))
         IN  [cache |-> r.cache, cut_paths |-> r.cut_paths,
              heap |-> r.heap,
              mode |-> e.state.mode, modal_state |-> e.state.modal_state,
              selected |-> e.state.selected, selected_path |-> e.state.selected_path,
              hover_target |-> IF e.cut_data = live THEN hov ELSE Kill(hov, h[live].list),
              snap |-> IF e.cut_data = live THEN sn ELSE KillSnap(sn, h[live].list)]
    ELSE [cache |-> cache, cut_paths |-> live, heap |-> h, mode |-> m,
          modal_state |-> ms, selected |-> sel, selected_path |-> selp,
          hover_target |-> hov, snap |-> sn]

\* the graph a snapshotting handler found when it was called; Unknown once an
\* undo or an unsnapshotted change has intervened
Unknown == [known |-> FALSE, list |-> <<>>]
Seen == [known |-> TRUE, list |-> Live]

----------------------------------------------------------------------------
(* The mesh cache: contour_mesh_cache holds the fingerprint of the object  *)
(* it was made from under 'valid' and the converted surface under 'bme'    *)
(* (the temporary object under 'tmp' comes and goes with it)               *)

\* the key 'valid' is not in the cache
NoKey == <<>>
EmptyCache == [valid |-> NoKey, bme |-> FALSE]

\* the objects the operator is invoked on: one form, before and after an
\* edit that changes its counts, bounding box or vertex sum
Targets == {[name |-> "Form", shape |-> 1], [name |-> "Form", shape |-> 2]}

\* object_validation(ob): the name and the counts, bounding box and vertex
\* sum of the mesh
object_validation(ob) == <<ob.name, ob.shape>>

\* is_object_valid(ob)
is_object_valid(c, ob) ==
    IF c.valid = NoKey THEN FALSE ELSE c.valid = object_validation(ob)

\* the calls a clear makes: bme_old.free() when the key 'bme' is there
ClearCalls(c) == <<"clear_mesh_cache">> \o (IF c.bme THEN <<"free">> ELSE <<>>)

\* a clear that frees the bmesh and leaves its key in the cache
clear_keeps_bme(c) == [cache |-> [c EXCEPT !.valid = NoKey], calls |-> ClearCalls(c)]

\* clear_mesh_cache(): the cache afterwards and the calls made
clear_mesh_cache(c) == [cache |-> EmptyCache, calls |-> ClearCalls(c)]

\* write_mesh_cache(orig_ob, tmp_ob, bme): clear, then store
write_mesh_cache(c, orig_ob) ==
    LET cleared == clear_mesh_cache(c)
    IN  [cache |-> [cleared.cache EXCEPT !.valid = object_validation(orig_ob),
                                         !.bme = TRUE],
         calls |-> <<"write_mesh_cache">> \o cleared.calls]

\* use_cache: in edit mode is_valid, in object mode is_valid and has_tmp
use_cache(edit, is_valid, has_tmp) == IF edit THEN is_valid ELSE is_valid /\ has_tmp

\* what invoke does with the mesh cache: in edit mode a first clear when the
\* target is not valid; then the cached surface is loaded, or the cache is
\* cleared, the surface converted and the cache written
surface_at_invoke(c, target, edit, has_tmp) ==
    LET is_valid == is_object_valid(c, target)
        first == IF edit /\ ~is_valid THEN clear_mesh_cache(c)
                 ELSE [cache |-> c, calls |-> <<>>]
    IN  IF use_cache(edit, is_valid, has_tmp)
        THEN [cache |-> first.cache, calls |-> first.calls \o <<"load">>]
        ELSE LET second == clear_mesh_cache(first.cache)
                 written == write_mesh_cache(second.cache, target)
             IN  [cache |-> written.cache,
                  calls |-> first.calls \o second.calls \o <<"bmesh.new">>
                            \o written.calls]

----------------------------------------------------------------------------
(* Session start and end *)

\* one more event is handled
\* the handlers that act on the selected cut or the selected path: the keys
\* of the "if self.selected:" and "if self.selected_path:" blocks, the cursor
\* keys, and the steps and ends of a transform gesture
SelectionHandlers ==
    {"loop_hotkey_modal", "LoopDelete", "LoopArrowShift", "LoopAlign",
     "LoopRingSegments", "LoopCursor",
     "TransformStep", "WidgetCancel", "TransformConfirm",
     "GuideDelete", "GuideArrowShift", "GuidePathSegments", "GuideSmooth",
     "GuideCursor"}

Event(handler) ==
    /\ events < (IF handler \in SelectionHandlers THEN MaxEvents ELSE MaxSetup)
    /\ events' = events + 1
    /\ last' = handler

\* ContourCutSeries(context, []): the segments a blank path starts with
default_segments == 5

\* len(existing_loop.verts_simple) of the edge loop selected in edit mode
ExistingLoopSizes == {vertex_count + 1}

Init ==
    /\ running = FALSE
    /\ result = "NONE"
    /\ mode = "LOOP"
    /\ modal_state = "WAITING"
    /\ cut_paths = 0
    /\ heap = [o \in Oids |-> IF o = 0 THEN Obj(<<>>) ELSE Free]
    /\ contour_undo_cache = <<>>
    /\ selected = None
    /\ selected_path = None
    /\ hover_target = None
    /\ force_new = FALSE
    /\ snap = SnapEmpty
    /\ draw_cache = 0
    /\ hot_key = "None"
    /\ cut_lines = 0
    /\ dest_bme = <<>>
    /\ contour_mesh_cache = EmptyCache
    /\ calls = <<>>
    /\ cursor_cuts = <<>>
    /\ events = 0
    /\ last = "None"
    /\ timer = FALSE
    /\ wm_timers = 0
    /\ pre_action = Unknown

\* in-place change of the live list object
SetLive(h, g) == [h EXCEPT ![cut_paths].list = g]

\* an exception leaves modal: the handler is dropped with the state as it is
Raise(cache, h, sel, selp) ==
    /\ running' = FALSE
    /\ result' = "ERROR"
    /\ contour_undo_cache' = cache
    /\ heap' = h
    /\ selected' = sel
    /\ selected_path' = selp
    /\ UNCHANGED <<mode, modal_state, cut_paths, hover_target, force_new, snap,
                   draw_cache, hot_key, pre_action>>

\* temporary_message_start: a timer is added only when the session holds none
temporary_message_start ==
    /\ timer' = TRUE
    /\ wm_timers' = IF timer THEN wm_timers ELSE wm_timers + 1

\* a handler whose message is its last statement: an exception before it
\* leaves the timer as it is
message_if_reached ==
    IF running' THEN temporary_message_start ELSE UNCHANGED <<timer, wm_timers>>

\* if self._timer: event_timer_remove(self._timer); self._timer = None
event_timer_remove ==
    /\ timer' = FALSE
    /\ wm_timers' = IF timer THEN wm_timers - 1 ELSE wm_timers

\* the handler neither starts a message nor removes the timer
timer_kept == UNCHANGED <<timer, wm_timers>>

\* invoke in a viewport shaded WIREFRAME or BOUNDBOX
InvokeRefused ==
    /\ Event("InvokeRefused")
    /\ UNCHANGED <<cut_lines, dest_bme>>
    /\ calls' = <<>>
    /\ cursor_cuts' = <<>>
    /\ UNCHANGED contour_mesh_cache
    /\ ~running
    /\ result' = "CANCELLED"
    /\ UNCHANGED <<running, mode, modal_state, heap, cut_paths, contour_undo_cache,
                   selected, selected_path, hover_target, force_new, snap,
                   draw_cache, hot_key, pre_action>>
    /\ timer_kept

\* invoke: loop is 0 in object mode or without a usable edge loop, else the
\* vertex count of the selected edge loop; recover is settings.recover,
\* target the object the surface is taken from, edit says context.mode is
\* EDIT_MESH, has_tmp that the object ContourTMP exists.
\* contour_undo_cache = [] assigns a local name: the module's undo stack is
\* left as it is.
invoke(loop, recover, target, edit, has_tmp) ==
    /\ Event("invoke")
    /\ ~running
    /\ loop # 0 => edit
    /\ edit => ~has_tmp
    /\ LET surface == surface_at_invoke(contour_mesh_cache, target, edit, has_tmp)
       IN  /\ contour_mesh_cache' = surface.cache
           /\ calls' = surface.calls
    /\ cursor_cuts' = <<>>
    /\ LET used == CacheOids(contour_undo_cache)
           live == CHOOSE o \in Oids \ used : \A q \in Oids \ used : o <= q
           g == IF loop = 0 THEN <<>>
                ELSE <<Path(<<>>, TRUE, FALSE, TRUE, default_segments, loop, FALSE)>>
           h0 == [Collect(heap, live, contour_undo_cache) EXCEPT ![live] = Obj(g)]
           selp == IF Len(g) = 0 THEN None ELSE PathRef(Len(g))
           u == IF recover /\ is_object_valid(contour_mesh_cache, target)
                THEN undo_action(contour_undo_cache, live, h0, "LOOP", "WAITING",
                                 None, selp, None, SnapEmpty)
                ELSE [cache |-> Renumber(live, contour_undo_cache, h0).cache,
                      cut_paths |-> Renumber(live, contour_undo_cache, h0).cut_paths,
                      heap |-> Renumber(live, contour_undo_cache, h0).heap,
                      mode |-> "LOOP", modal_state |-> "WAITING", selected |-> None,
                      selected_path |-> selp, hover_target |-> None,
                      snap |-> SnapEmpty]
       IN  /\ cut_paths' = u.cut_paths
           /\ heap' = u.heap
           /\ contour_undo_cache' = u.cache
           /\ mode' = u.mode
           /\ modal_state' = u.modal_state
           /\ selected' = u.selected
           /\ selected_path' = u.selected_path
           /\ hover_target' = u.hover_target
           /\ snap' = u.snap
    /\ running' = TRUE
    /\ result' = "RUNNING_MODAL"
    /\ force_new' = FALSE
    /\ draw_cache' = 0
    /\ hot_key' = "None"
    /\ cut_lines' = 0
    /\ dest_bme' = <<>>
    /\ pre_action' = Unknown
    /\ timer' = FALSE
    /\ UNCHANGED wm_timers

\* fingerprints are only compared for equality, so the form an empty cache
\* meets is taken in its first shape
FirstSeen(target) == contour_mesh_cache.valid = NoKey => target.shape = 1

Invoke ==
    \E loop \in {0} \cup ExistingLoopSizes, recover \in BOOLEAN, target \in Targets,
       edit \in BOOLEAN, has_tmp \in BOOLEAN :
        /\ FirstSeen(target)
        /\ invoke(loop, recover, target, edit, has_tmp)

\* CGCOOKIE_OT_retopo_cache_clear.execute: the Clear Contour Cache button of
\* the preferences panel, pressed with or without a session open.  A session
\* keeps self.bme, the bmesh the clear has freed; src/ only hands it on to
\* the geometry operations of contour_classes
cache_clear ==
    /\ Event("cache_clear")
    /\ LET cleared == clear_mesh_cache(contour_mesh_cache)
       IN  /\ contour_mesh_cache' = cleared.cache
           /\ calls' = cleared.calls
    /\ cursor_cuts' = <<>>
    /\ UNCHANGED <<running, result, mode, modal_state, heap, cut_paths,
                   contour_undo_cache, selected, selected_path, hover_target,
                   force_new, snap, draw_cache, hot_key, cut_lines, dest_bme,
                   pre_action>>
    /\ timer_kept

----------------------------------------------------------------------------
(* modal: events handled in every mode and state *)

\* Ctrl+Z PRESS: undo_action, then the event matches no other branch
KeyUndo ==
    /\ Event(IF Len(contour_undo_cache) > 0 THEN "KeyUndo" ELSE "KeyUndo/empty")
    /\ UNCHANGED <<cut_lines, dest_bme>>
    /\ calls' = <<>>
    /\ cursor_cuts' = <<>>
    /\ UNCHANGED contour_mesh_cache
    /\ running
    /\ LET u == undo_action(contour_undo_cache, cut_paths, heap, mode, modal_state,
                            selected, selected_path, hover_target, snap)
       IN  /\ contour_undo_cache' = u.cache
           /\ cut_paths' = u.cut_paths
           /\ heap' = u.heap
           /\ mode' = u.mode
           /\ modal_state' = u.modal_state
           /\ selected' = u.selected
           /\ selected_path' = u.selected_path
           /\ hover_target' = u.hover_target
           /\ snap' = u.snap
    /\ pre_action' = Unknown
    /\ result' = "RUNNING_MODAL"
    /\ UNCHANGED <<running, force_new, draw_cache, hot_key>>
    /\ temporary_message_start

\* a navigation key released, or a trackpad / NDOF event, while NAVIGATING;
\* self.post_update = True is recorded among the event's calls
NavigateEnd ==
    /\ Event("NavigateEnd")
    /\ UNCHANGED <<cut_lines, dest_bme>>
    /\ calls' = <<"post_update">>
    /\ cursor_cuts' = <<>>
    /\ UNCHANGED contour_mesh_cache
    /\ running
    /\ modal_state = "NAVIGATING"
    /\ modal_state' = "WAITING"
    /\ result' = "PASS_THROUGH"
    /\ UNCHANGED <<running, mode, heap, cut_paths, contour_undo_cache, selected,
                   selected_path, hover_target, force_new, snap, draw_cache,
                   hot_key, pre_action>>
    /\ timer_kept

\* a navigation that starts in whatever modal_state the event finds
navigate_from_any_state ==
    /\ Event("NavigateStart")
    /\ UNCHANGED <<cut_lines, dest_bme>>
    /\ calls' = <<"post_update">>
    /\ cursor_cuts' = <<>>
    /\ UNCHANGED contour_mesh_cache
    /\ running
    /\ modal_state' = "NAVIGATING"
    /\ result' = "PASS_THROUGH"
    /\ UNCHANGED <<running, mode, heap, cut_paths, contour_undo_cache, selected,
                   selected_path, hover_target, force_new, snap, draw_cache,
                   hot_key, pre_action>>
    /\ temporary_message_start

\* a navigation key pressed, or a trackpad / NDOF event, while WAITING;
\* self.post_update = True is recorded among the event's calls
NavigateStart ==
    /\ Event("NavigateStart")
    /\ UNCHANGED <<cut_lines, dest_bme>>
    /\ calls' = <<"post_update">>
    /\ cursor_cuts' = <<>>
    /\ UNCHANGED contour_mesh_cache
    /\ running
    /\ modal_state = "WAITING"
    /\ modal_state' = "NAVIGATING"
    /\ result' = "PASS_THROUGH"
    /\ UNCHANGED <<running, mode, heap, cut_paths, contour_undo_cache, selected,
                   selected_path, hover_target, force_new, snap, draw_cache,
                   hot_key, pre_action>>
    /\ temporary_message_start

\* contour_utilities.callback_cleanup removes the draw callback; the timer is
\* removed when the session holds one
cleanup_calls ==
    <<"callback_cleanup">> \o (IF timer THEN <<"event_timer_remove">> ELSE <<>>)

\* the session is over and the operator instance is dropped: its fields
\* stand as a new instance's would, its list object is nobody's any more
Dropped ==
    /\ running' = FALSE
    /\ mode' = "LOOP"
    /\ modal_state' = "WAITING"
    /\ heap' = [heap EXCEPT ![cut_paths] = Obj(<<>>)]
    /\ selected' = None
    /\ selected_path' = None
    /\ hover_target' = None
    /\ force_new' = FALSE
    /\ snap' = SnapEmpty
    /\ draw_cache' = 0
    /\ hot_key' = "None"
    /\ cut_lines' = 0
    /\ calls' = cleanup_calls
    /\ cursor_cuts' = <<>>
    /\ UNCHANGED contour_mesh_cache
    /\ pre_action' = Unknown
    /\ UNCHANGED <<cut_paths, contour_undo_cache>>
    /\ event_timer_remove

\* the event types the WAITING cancel branches test for
cancel_types == {"ESC", "RIGHT_MOUSE"}

\* the types Blender gives the two cancelling inputs: the right mouse button
\* arrives as RIGHTMOUSE
CancelInputs == {"ESC", "RIGHTMOUSE"}

\* ESC or right mouse button PRESS while WAITING: a type among cancel_types
\* ends the session, any other matches no branch of modal
Cancel(type) ==
    /\ Event(IF type \in cancel_types THEN "Cancel" ELSE "Cancel/ignored")
    /\ running
    /\ modal_state = "WAITING"
    /\ IF type \in cancel_types
       THEN /\ result' = "CANCELLED"
            /\ UNCHANGED dest_bme
            /\ Dropped
       ELSE /\ result' = "RUNNING_MODAL"
            /\ calls' = <<>>
            /\ cursor_cuts' = <<>>
            /\ UNCHANGED <<running, mode, modal_state, heap, cut_paths,
                           contour_undo_cache, selected, selected_path, hover_target,
                           force_new, snap, draw_cache, hot_key, cut_lines, dest_bme,
                           contour_mesh_cache, pre_action, timer, wm_timers>>

\* a TIMER event of a registered timer: once msg_duration has passed the
\* session's timer is removed; the event matches no other branch of modal
Timer(expired) ==
    /\ Event(IF expired THEN "Timer" ELSE "Timer/early")
    /\ running
    /\ wm_timers > 0
    /\ IF expired THEN event_timer_remove ELSE timer_kept
    /\ result' = "RUNNING_MODAL"
    /\ calls' = <<>>
    /\ cursor_cuts' = <<>>
    /\ UNCHANGED <<running, mode, modal_state, heap, cut_paths, contour_undo_cache,
                   selected, selected_path, hover_target, force_new, snap,
                   draw_cache, hot_key, cut_lines, dest_bme, contour_mesh_cache,
                   pre_action>>

\* a loop over the paths that leaves the first one out
push_rest(dest, g) == IF g = <<>> THEN dest ELSE dest \o Tail(g)

\* for path in self.cut_paths: path.push_data_into_bmesh(...)
RECURSIVE push_paths(_, _)
push_paths(dest, g) ==
    IF g = <<>> THEN dest ELSE push_paths(Append(dest, Head(g)), Tail(g))

\* finish_mesh on RET / NUMPAD_ENTER PRESS while WAITING
finish_mesh ==
    /\ Event("finish_mesh")
    /\ running
    /\ modal_state = "WAITING"
    /\ dest_bme' = push_paths(dest_bme, Live)
    /\ result' = "FINISHED"
    /\ Dropped

\* N PRESS while WAITING: toggle force_new, self.snap = None
ForceNew ==
    /\ Event("ForceNew")
    /\ UNCHANGED <<cut_lines, dest_bme>>
    /\ calls' = <<>>
    /\ cursor_cuts' = <<>>
    /\ UNCHANGED contour_mesh_cache
    /\ running
    /\ modal_state = "WAITING"
    /\ force_new' = ~force_new
    /\ snap' = None
    /\ result' = "RUNNING_MODAL"
    /\ UNCHANGED <<running, mode, modal_state, heap, cut_paths, contour_undo_cache,
                   selected, selected_path, hover_target, draw_cache, hot_key,
                   pre_action>>
    /\ temporary_message_start

\* C PRESS while WAITING: view3d.view_center_cursor and a message
CenterView ==
    /\ Event("CenterView")
    /\ running
    /\ modal_state = "WAITING"
    /\ result' = "RUNNING_MODAL"
    /\ calls' = <<>>
    /\ cursor_cuts' = <<>>
    /\ UNCHANGED <<running, mode, modal_state, heap, cut_paths, contour_undo_cache,
                   selected, selected_path, hover_target, force_new, snap,
                   draw_cache, hot_key, cut_lines, dest_bme, contour_mesh_cache,
                   pre_action>>
    /\ temporary_message_start

\* WHEELUPMOUSE / WHEELDOWNMOUSE without Ctrl or Shift while WAITING: the
\* zoom is passed through, modal_state stays; GUIDE mode shows a message
Zoom ==
    /\ Event("Zoom")
    /\ running
    /\ modal_state = "WAITING"
    /\ result' = "PASS_THROUGH"
    /\ calls' = <<"post_update">>
    /\ cursor_cuts' = <<>>
    /\ UNCHANGED <<running, mode, modal_state, heap, cut_paths, contour_undo_cache,
                   selected, selected_path, hover_target, force_new, snap,
                   draw_cache, hot_key, cut_lines, dest_bme, contour_mesh_cache,
                   pre_action>>
    /\ IF mode = "GUIDE" THEN temporary_message_start ELSE timer_kept

----------------------------------------------------------------------------
(* References after the live list changes in place *)

AfterCutRemoved(r, p, j) ==
    IF r.k = "cut" /\ r.p = p
    THEN IF r.c = j THEN GoneCut(j)
         ELSE IF r.c > j THEN CutRef(p, r.c - 1) ELSE r
    ELSE r

AfterCutInserted(r, p, j) ==
    IF r.k = "cut" /\ r.p = p /\ r.c >= j THEN CutRef(p, r.c + 1) ELSE r

AfterCutsReplaced(r, p) ==
    IF r.k = "cut" /\ r.p = p THEN GoneCut(r.c) ELSE r

\* cut_paths.remove(path) on the list g, path at position p
AfterPathRemoved(r, p, g) ==
    IF r.k \in {"cut", "path", "head"} /\ r.p = p THEN Kill(r, g)
    ELSE IF r.k \in {"cut", "path", "head"} /\ r.p > p THEN [r EXCEPT !.p = r.p - 1]
    ELSE r

\* the snap pair after the same changes
SnapAfterCutRemoved(sn, p, j) ==
    IF sn.k = "cut" /\ sn.p = p /\ sn.c = j THEN LostEnd(p)
    ELSE AfterCutRemoved(sn, p, j)

SnapAfterCutsReplaced(sn, p) ==
    IF sn.k = "cut" /\ sn.p = p THEN LostEnd(p) ELSE sn

SnapAfterPathRemoved(sn, p, g) ==
    IF sn.k \in {"cut", "head", "lostcut"} /\ sn.p = p THEN KillSnap(sn, g)
    ELSE IF sn.k \in {"cut", "head", "lostcut"} /\ sn.p > p THEN [sn EXCEPT !.p = sn.p - 1]
    ELSE sn

\* the same changes made to a path object outside the live list, the object
\* q names, which they leave as o: remove_cut of its cut j
StaleAfterCutRemoved(r, q, j, o) ==
    IF CutOf(r, q)
    THEN IF r.j = j THEN GoneCut(j)
         ELSE IF r.j > j THEN [r EXCEPT !.j = r.j - 1] ELSE r
    ELSE Rebind(r, q, o)

SnapStaleAfterCutRemoved(sn, q, j, o) ==
    IF SameObject(sn, q) /\ sn.k = "deadcut" /\ sn.j = j
    THEN [sn EXCEPT !.k = "deadlost", !.j = 0, !.obj = o]
    ELSE IF SameObject(sn, q) /\ sn.k = "deadcut" /\ sn.j > j
    THEN [sn EXCEPT !.j = sn.j - 1, !.obj = o]
    ELSE Rebind(sn, q, o)

\* all its cuts made again
StaleAfterCutsReplaced(r, q, o) ==
    IF CutOf(r, q) THEN GoneCut(r.j) ELSE Rebind(r, q, o)

SnapStaleAfterCutsReplaced(sn, q, o) ==
    IF SameObject(sn, q) /\ sn.k = "deadcut"
    THEN [sn EXCEPT !.k = "deadlost", !.j = 0, !.obj = o]
    ELSE Rebind(sn, q, o)

\* n cuts put before its first cut
StaleAfterCutsPrepended(r, q, n, o) ==
    IF CutOf(r, q) THEN [r EXCEPT !.j = r.j + n] ELSE Rebind(r, q, o)

SnapStaleAfterCutsPrepended(sn, q, n, o) ==
    IF SameObject(sn, q) /\ sn.k = "deadcut"
    THEN [sn EXCEPT !.j = sn.j + n, !.obj = o]
    ELSE Rebind(sn, q, o)

AllCutRefs(g) == UNION {{CutRef(i, j) : j \in 1..Len(g[i].cuts)} : i \in 1..Len(g)}

\* the cuts the mouse can be over: every cut of every path
HoverCuts(g) == AllCutRefs(g)

\* the selected path object, in cut_paths or not, as far as it is followed
SelectedPathObj(selp) == IF selp.k = "path" THEN Stale(Live[selp.p]) ELSE selp.obj

\* selected_path.ring_segments
RingChoices(selp) == {SelectedPathObj(selp).ring_segments}

\* align_cut moves the seam of the cut: the shift it settles on depends on
\* the neighbours' geometry
AlignChoices(cut) == {cut.shift, Zero}

----------------------------------------------------------------------------
(* modal, mode LOOP, modal_state WAITING *)

\* TAB PRESS
LoopTab ==
    /\ Event("LoopTab")
    /\ UNCHANGED <<cut_lines, dest_bme>>
    /\ calls' = <<>>
    /\ cursor_cuts' = <<>>
    /\ UNCHANGED contour_mesh_cache
    /\ running /\ mode = "LOOP" /\ modal_state = "WAITING"
    /\ mode' = "GUIDE"
    /\ selected' = None
    /\ result' = "RUNNING_MODAL"
    /\ UNCHANGED <<running, modal_state, heap, cut_paths, contour_undo_cache,
                   selected_path, hover_target, force_new, snap, draw_cache,
                   hot_key, pre_action>>
    /\ event_timer_remove

\* hover_loop_mode: MOUSEMOVE, the cut under the mouse becomes hover_target;
\* with no paths the hover target is left as it is
hover_loop_mode ==
    /\ Event("hover_loop_mode")
    /\ UNCHANGED <<cut_lines, dest_bme>>
    /\ calls' = <<>>
    /\ cursor_cuts' = <<>>
    /\ UNCHANGED contour_mesh_cache
    /\ running /\ mode = "LOOP" /\ modal_state = "WAITING"
    /\ IF Live # <<>>
       THEN hover_target' \in HoverCuts(Live) \cup {None}
       ELSE UNCHANGED hover_target
    /\ result' = "RUNNING_MODAL"
    /\ UNCHANGED <<running, mode, modal_state, heap, cut_paths, contour_undo_cache,
                   selected, selected_path, force_new, snap, draw_cache, hot_key, pre_action>>
    /\ timer_kept

\* LEFTMOUSE PRESS over a hover target that is not the selection: select it
LoopSelect(shift) ==
    /\ Event("LoopSelect")
    /\ UNCHANGED <<cut_lines, dest_bme>>
    /\ calls' = <<>>
    /\ cursor_cuts' = <<>>
    /\ UNCHANGED contour_mesh_cache
    /\ running /\ mode = "LOOP" /\ modal_state = "WAITING"
    /\ hover_target # None
    /\ hover_target # selected
    /\ selected' = hover_target
    /\ LET hit == IF hover_target.k = "cut" /\ PathRef(hover_target.p) # selected_path
                  THEN hover_target.p ELSE 0
           g == [i \in 1..Len(Live) |->
                    IF i = hit THEN do_select(Live[i]) ELSE deselect(Live[i])]
           \* self.hover_target.do_select(settings), the branch's last statement
           ring(l) == [i \in 1..Len(l) |->
                         IF hover_target = PathRef(i) THEN do_select(l[i]) ELSE l[i]]
       IN  IF shift
           THEN /\ heap' = SetLive(heap, ring(Live))
                /\ UNCHANGED selected_path
           ELSE /\ heap' = SetLive(heap, ring(g))
                /\ selected_path' = IF hit # 0 THEN PathRef(hit) ELSE selected_path
    /\ result' = "RUNNING_MODAL"
    /\ UNCHANGED <<running, mode, modal_state, cut_paths, contour_undo_cache,
                   hover_target, force_new, snap, draw_cache, hot_key, pre_action>>
    /\ timer_kept

\* the part every snapshotting handler shares once its snapshot is taken
Snapped(s) ==
    /\ contour_undo_cache' = s.cache
    /\ pre_action' = Seen
    /\ running' = TRUE
    /\ result' = "RUNNING_MODAL"

\* an exception in a snapshotting handler
Failed(s, h) ==
    /\ Raise(s.cache, h, selected, selected_path)

\* Shift+S PRESS in LOOP mode while WAITING: with a selection the 3D cursor
\* goes to selected.plane_com and a message starts; a path has no plane_com
LoopCursor ==
    /\ Event("LoopCursor")
    /\ UNCHANGED <<cut_lines, dest_bme>>
    /\ calls' = <<>>
    /\ UNCHANGED contour_mesh_cache
    /\ running /\ mode = "LOOP" /\ modal_state = "WAITING"
    /\ IF IsSeries(selected)
       THEN /\ Raise(contour_undo_cache, heap, selected, selected_path)
            /\ cursor_cuts' = <<>>
       ELSE /\ result' = "RUNNING_MODAL"
            /\ cursor_cuts' = IF selected = None THEN <<>> ELSE <<selected.c>>
            /\ UNCHANGED <<running, mode, modal_state, heap, cut_paths,
                           contour_undo_cache, selected, selected_path, hover_target,
                           force_new, snap, draw_cache, hot_key, pre_action>>
    /\ IF selected = None THEN timer_kept ELSE message_if_reached

\* LEFTMOUSE PRESS over the selected cut: start a widget transform
LoopWidgetGrab ==
    /\ Event("LoopWidgetGrab")
    /\ UNCHANGED <<cut_lines, dest_bme>>
    /\ calls' = <<>>
    /\ cursor_cuts' = <<>>
    /\ UNCHANGED contour_mesh_cache
    /\ running /\ mode = "LOOP" /\ modal_state = "WAITING"
    /\ hover_target # None /\ hover_target = selected
    /\ LET s == create_undo_snapshot("WIDGET_TRANSFORM")
       IN  /\ Snapped(s)
           /\ heap' = s.heap
    /\ modal_state' = "WIDGET_TRANSFORM"
    /\ UNCHANGED <<mode, cut_paths, selected, selected_path, hover_target, force_new,
                   snap, draw_cache, hot_key>>
    /\ timer_kept

\* LEFTMOUSE PRESS over nothing: click_new_cut starts a new cut line
click_new_cut ==
    /\ Event("click_new_cut")
    /\ running /\ mode = "LOOP" /\ modal_state = "WAITING"
    /\ hover_target = None
    /\ LET s == create_undo_snapshot("CUTTING")
       IN  /\ Snapped(s)
           /\ heap' = s.heap
    /\ modal_state' = "CUTTING"
    /\ selected' = NewCut
    /\ cut_lines' = cut_lines + 1
    /\ calls' = <<>>
    /\ cursor_cuts' = <<>>
    /\ UNCHANGED contour_mesh_cache
    /\ UNCHANGED dest_bme
    /\ UNCHANGED <<mode, cut_paths, selected_path, hover_target, force_new, snap,
                   draw_cache, hot_key>>
    /\ message_if_reached

\* G or R PRESS with a selection: loop_hotkey_modal; behind: the selected
\* cut's centre is behind the view, location_3d_to_region_2d answers None and
\* screen_pivot[0] raises, after the snapshot and the new modal_state; R with
\* a path selected raises there too, a path has no plane_com
loop_hotkey_modal(key, behind) ==
    /\ Event("loop_hotkey_modal")
    /\ UNCHANGED <<cut_lines, dest_bme>>
    /\ calls' = <<>>
    /\ cursor_cuts' = <<>>
    /\ UNCHANGED contour_mesh_cache
    /\ running /\ mode = "LOOP" /\ modal_state = "WAITING"
    /\ selected # None
    /\ behind => key = "R"
    /\ LET s == create_undo_snapshot("HOTKEY_TRANSFORM")
       IN  /\ IF behind \/ (key = "R" /\ IsSeries(selected))
              THEN /\ contour_undo_cache' = s.cache
                   /\ running' = FALSE
                   /\ result' = "ERROR"
                   /\ UNCHANGED pre_action
              ELSE Snapped(s)
           /\ heap' = s.heap
    /\ modal_state' = "HOTKEY_TRANSFORM"
    /\ hot_key' = key
    /\ UNCHANGED <<mode, cut_paths, selected, selected_path, hover_target, force_new,
                   snap, draw_cache>>
    /\ message_if_reached

\* path.remove_cut(cut): the cut leaves the ordered list
remove_cut(path, j) == [path EXCEPT !.cuts = RemoveAt(path.cuts, j)]

\* X PRESS with a selection: delete the selected cut, or the whole path when
\* it is the last cut of a path with no existing head
LoopDelete ==
    /\ Event("LoopDelete")
    /\ UNCHANGED <<cut_lines, dest_bme>>
    /\ calls' = <<>>
    /\ cursor_cuts' = <<>>
    /\ UNCHANGED contour_mesh_cache
    /\ running /\ mode = "LOOP" /\ modal_state = "WAITING"
    /\ selected # None
    /\ LET s == create_undo_snapshot("DELETE")
           p == selected_path.p
           path == Live[p]
       IN  IF selected_path = None
           THEN Failed(s, s.heap)
           ELSE IF selected_path.k = "deadpath"
           THEN \* the selected path is not in cut_paths: cut_paths.remove
                \* raises, and so does remove_cut unless the selected cut is
                \* one of the path's cuts
                LET o == selected_path.obj
                    left == [o EXCEPT !.cuts = o.cuts - 1]
                IN  IF /\ o.cuts > 1 \/ (o.cuts = 1 /\ o.existing_head)
                       /\ CutOf(selected, selected_path)
                    THEN /\ Snapped(s)
                         /\ heap' = s.heap
                         /\ selected' = None
                         /\ selected_path' = Rebind(selected_path, selected_path, left)
                         /\ hover_target' = StaleAfterCutRemoved(hover_target, selected_path,
                                                                 selected.j, left)
                         /\ snap' = SnapStaleAfterCutRemoved(snap, selected_path,
                                                             selected.j, left)
                         /\ UNCHANGED <<mode, modal_state, cut_paths, force_new,
                                        draw_cache, hot_key>>
                    ELSE Failed(s, s.heap)
           ELSE IF Len(path.cuts) > 1 \/ (Len(path.cuts) = 1 /\ path.existing_head)
           THEN IF selected.k = "cut" /\ selected.p = p
                THEN /\ Snapped(s)
                     /\ heap' = [s.heap EXCEPT ![cut_paths].list[p] = connect_cuts_to_make_mesh(remove_cut(path, selected.c))]
                     /\ selected' = None
                     /\ hover_target' = AfterCutRemoved(hover_target, p, selected.c)
                     /\ snap' = SnapAfterCutRemoved(snap, p, selected.c)
                     /\ UNCHANGED <<mode, modal_state, cut_paths, selected_path,
                                    force_new, draw_cache, hot_key>>
                ELSE Failed(s, s.heap)
           ELSE /\ Snapped(s)
                /\ heap' = [s.heap EXCEPT ![cut_paths].list = RemoveAt(Live, p)]
                /\ selected_path' = None
                /\ selected' = None
                /\ hover_target' = AfterPathRemoved(hover_target, p, Live)
                /\ snap' = SnapAfterPathRemoved(snap, p, Live)
                /\ UNCHANGED <<mode, modal_state, cut_paths, force_new, draw_cache,
                               hot_key>>
    /\ message_if_reached

\* the selected cut of the live list with its shift and vertex count changed
WithCut(g, sel, sh, n) ==
    IF sel.k = "cut" THEN [g EXCEPT ![sel.p].cuts[sel.c] = Cut(sh, n)] ELSE g

ShiftOf(sel) == IF sel.k = "cut" THEN Live[sel.p].cuts[sel.c].shift ELSE Zero
VertsOf(sel) == IF sel.k = "cut" THEN Live[sel.p].cuts[sel.c].n ELSE 0

\* self.selected_path.connect_cuts_to_make_mesh: the bridge faces of the
\* selected path, if it is in the live list, are computed again
ConnectSelectedPath(g) ==
    IF selected_path.k = "path"
    THEN [g EXCEPT ![selected_path.p] = connect_cuts_to_make_mesh(@)]
    ELSE g

\* loop_arrow_shift: the selected cut's shift moves by 0.05 and the cut is
\* resampled to the selected path's ring_segments
loop_arrow_shift(g, sel, d, rs) ==
    ConnectSelectedPath(WithCut(g, sel, AddSteps(ShiftOf(sel), d), rs))

\* LEFT_ARROW / RIGHT_ARROW PRESS with a selection
LoopArrowShift(d) ==
    /\ Event("LoopArrowShift")
    /\ UNCHANGED <<cut_lines, dest_bme>>
    /\ calls' = <<>>
    /\ cursor_cuts' = <<>>
    /\ UNCHANGED contour_mesh_cache
    /\ running /\ mode = "LOOP" /\ modal_state = "WAITING"
    /\ selected # None
    /\ LET s == create_undo_snapshot("LOOP_SHIFT")
       IN  IF s.raised \/ IsSeries(selected)
           THEN Failed(s, s.heap)
           ELSE IF selected_path = None
           THEN Failed(s, [s.heap EXCEPT ![cut_paths].list =
                              WithCut(Live, selected, AddSteps(ShiftOf(selected), d),
                                      VertsOf(selected))])
           ELSE \E rs \in RingChoices(selected_path) :
                /\ Snapped(s)
                /\ heap' = [s.heap EXCEPT ![cut_paths].list =
                               loop_arrow_shift(Live, selected, d, rs)]
                /\ UNCHANGED <<mode, modal_state, cut_paths, selected, selected_path,
                               hover_target, force_new, snap, draw_cache, hot_key>>
    /\ message_if_reached

\* loop_align_modal: the selected cut is aligned to its neighbours and
\* resampled; act is unbound when Ctrl and Shift are both held
loop_align_modal(g, sel, sh, rs) == ConnectSelectedPath(WithCut(g, sel, sh, rs))

\* A PRESS with a selection
LoopAlign(both) ==
    /\ Event("LoopAlign")
    /\ UNCHANGED <<cut_lines, dest_bme>>
    /\ calls' = <<>>
    /\ cursor_cuts' = <<>>
    /\ UNCHANGED contour_mesh_cache
    /\ running /\ mode = "LOOP" /\ modal_state = "WAITING"
    /\ selected # None
    /\ LET s == create_undo_snapshot("ALIGN")
       IN  IF both \/ selected_path = None \/ IsSeries(selected)
           THEN Failed(s, s.heap)
           ELSE \E rs \in RingChoices(selected_path) :
                \E sh \in AlignChoices([shift |-> ShiftOf(selected)]) :
                /\ Snapped(s)
                /\ heap' = [s.heap EXCEPT ![cut_paths].list =
                               loop_align_modal(Live, selected, sh, rs)]
                /\ UNCHANGED <<mode, modal_state, cut_paths, selected, selected_path,
                               hover_target, force_new, snap, draw_cache, hot_key>>
    /\ message_if_reached

\* a ring count that steps below 3
unclamped_ring_segments(old, down) == IF down THEN old - 1 ELSE old + 1

\* the ring count after one step up or down, never below 3
NewRingSegments(old, down) ==
    LET r == IF down THEN old - 1 ELSE old + 1
    IN  IF r < 3 THEN 3 ELSE r

\* the selected path with its ring count changed: every cut's shift is
\* scaled by new / old and every cut is resampled to the new count
SetRingSegments(path, down) ==
    LET old == path.ring_segments
        new == NewRingSegments(old, down)
    IN  connect_cuts_to_make_mesh(
            [path EXCEPT
                !.ring_segments = new,
                !.cuts = [j \in 1..Len(path.cuts) |->
                             Cut(Scale(path.cuts[j].shift, new, old), new)]])

\* the RING_SEGMENTS branch without its ring_lock test
RingSegmentsUnlocked(path, down) == SetRingSegments(path, down)

\* what the RING_SEGMENTS branch does to the selected path
RingSegmentsBranch(path, down) ==
    IF ~path.ring_lock THEN SetRingSegments(path, down) ELSE path

\* the RING_SEGMENTS branch on a selected path that is not in cut_paths
StaleRingSegments(o, down) ==
    IF ~o.ring_lock THEN [o EXCEPT !.ring_segments = NewRingSegments(@, down)] ELSE o

\* Ctrl + wheel, or Ctrl + NUMPAD_PLUS / NUMPAD_MINUS, with a selection
LoopRingSegments(down) ==
    /\ Event("LoopRingSegments")
    /\ UNCHANGED <<cut_lines, dest_bme>>
    /\ calls' = <<>>
    /\ cursor_cuts' = <<>>
    /\ UNCHANGED contour_mesh_cache
    /\ running /\ mode = "LOOP" /\ modal_state = "WAITING"
    /\ selected # None
    /\ LET s == create_undo_snapshot("RING_SEGMENTS")
           p == selected_path.p
           o == StaleRingSegments(selected_path.obj, down)
       IN  IF selected_path = None
           THEN Failed(s, s.heap)
           ELSE IF selected_path.k = "path"
           THEN /\ Snapped(s)
                /\ heap' = [s.heap EXCEPT ![cut_paths].list[p] =
                                RingSegmentsBranch(Live[p], down)]
                /\ UNCHANGED <<mode, modal_state, cut_paths, selected, selected_path,
                               hover_target, force_new, snap, draw_cache, hot_key>>
           ELSE /\ Snapped(s)
                /\ heap' = s.heap
                /\ selected_path' = Rebind(selected_path, selected_path, o)
                /\ selected' = Rebind(selected, selected_path, o)
                /\ hover_target' = Rebind(hover_target, selected_path, o)
                /\ snap' = Rebind(snap, selected_path, o)
                /\ UNCHANGED <<mode, modal_state, cut_paths, force_new, draw_cache,
                               hot_key>>
    /\ message_if_reached

----------------------------------------------------------------------------
(* modal, mode LOOP, the gesture states *)

\* path.insert_new_cut accepted the cut at position pos: the cut joins the
\* path resampled to its ring count
insert_new_cut(path, pos, cut) ==
    [path EXCEPT !.cuts = InsertAt(path.cuts, pos, simplify_cross(cut, path.ring_segments))]

\* a path that takes the cut and leaves seg_lock as it was
accept_cut_unlocked(path, pos, cut) ==
    do_select(connect_cuts_to_make_mesh(insert_new_cut(path, pos, cut)))

\* the path whose insert_new_cut accepted the cut: the cut belongs to the
\* series now, path.seg_lock = True, path.do_select
accept_cut(path, pos, cut) ==
    do_select([connect_cuts_to_make_mesh(insert_new_cut(path, pos, cut))
                  EXCEPT !.seg_lock = TRUE])

\* how a placement ends: the stroke is under 20 pixels, it misses the mesh,
\* its cross-section has no vertices, or the cut is placed
PlaceOutcomes == {"too_short", "no_hit", "no_verts", "placed"}

\* release_place_cut: LEFTMOUSE RELEASE while CUTTING.  first is the first
\* path whose insert_new_cut accepts the cut (0: none does), pos the place
\* it takes there.  The cut leaves cut_lines on every return but the one
\* after a cross-section without vertices
release_place_cut(outcome, first, pos) ==
    /\ Event("release_place_cut")
    /\ running /\ mode = "LOOP" /\ modal_state = "CUTTING"
    /\ selected = NewCut
    /\ modal_state' = "WAITING"
    /\ result' = "RUNNING_MODAL"
    /\ calls' = <<>>
    /\ cursor_cuts' = <<>>
    /\ UNCHANGED contour_mesh_cache
    /\ LET new_cut == Cut(Zero, vertex_count)
           g == Live
       IN  IF outcome # "placed"
           THEN /\ selected' = None
                /\ cut_lines' = IF outcome = "no_verts" THEN cut_lines ELSE cut_lines - 1
                /\ UNCHANGED <<heap, selected_path, hover_target, snap, force_new>>
           ELSE IF g # <<>> /\ ~force_new /\ first # 0
           THEN /\ first \in 1..Len(g)
                /\ pos \in 1..(Len(g[first].cuts) + 1)
                /\ heap' = SetLive(heap,
                              DeselectOthers(
                                  [g EXCEPT ![first] = accept_cut(g[first], pos, new_cut)],
                                  first))
                /\ selected_path' = PathRef(first)
                /\ selected' = CutRef(first, pos)
                /\ hover_target' = AfterCutInserted(hover_target, first, pos)
                /\ snap' = AfterCutInserted(snap, first, pos)
                /\ cut_lines' = cut_lines - 1
                /\ UNCHANGED force_new
           ELSE /\ first = 0 /\ pos = 1
                /\ heap' = SetLive(heap,
                              Append(DeselectOthers(g, 0),
                                     Path(<<new_cut>>, FALSE, FALSE, FALSE, 1,
                                          new_cut.n, TRUE)))
                /\ selected_path' = PathRef(Len(g) + 1)
                /\ selected' = CutRef(Len(g) + 1, 1)
                /\ force_new' = FALSE
                /\ cut_lines' = cut_lines - 1
                /\ UNCHANGED <<hover_target, snap>>
    /\ UNCHANGED <<running, mode, cut_paths, contour_undo_cache, draw_cache, hot_key,
                   dest_bme, pre_action>>
    /\ timer_kept

ReleasePlaceCut ==
    \E outcome \in PlaceOutcomes, first \in 0..Len(Live) :
        \E pos \in 1..(IF first = 0 THEN 1 ELSE Len(Live[first].cuts) + 1) :
            /\ outcome # "placed" => (first = 0 /\ pos = 1)
            /\ release_place_cut(outcome, first, pos)

\* the selected cut re-cut, resampled to the selected path's ring count and
\* aligned between its neighbours (widget_transform and the hotkey moves)
widget_transform(g, sel, sh, rs) == ConnectSelectedPath(WithCut(g, sel, sh, rs))

\* a step of a transform gesture on the selected cut; leave says whether the
\* gesture ends with it
TransformStep(state, leave) ==
    /\ Event("TransformStep")
    /\ UNCHANGED <<cut_lines, dest_bme>>
    /\ calls' = <<>>
    /\ cursor_cuts' = <<>>
    /\ UNCHANGED contour_mesh_cache
    /\ running /\ mode = "LOOP" /\ modal_state = state
    /\ IF selected_path = None \/ IsSeries(selected)
       THEN /\ Raise(contour_undo_cache, heap, selected, selected_path)
       ELSE \E rs \in RingChoices(selected_path) :
            \E sh \in AlignChoices([shift |-> ShiftOf(selected)]) :
            /\ heap' = SetLive(heap, widget_transform(Live, selected, sh, rs))
            /\ modal_state' = IF leave THEN "WAITING" ELSE state
            /\ result' = "RUNNING_MODAL"
            /\ UNCHANGED <<running, mode, cut_paths, contour_undo_cache, selected,
                           selected_path, hover_target, force_new, snap, draw_cache,
                           hot_key, pre_action>>
    /\ IF leave THEN timer_kept
       ELSE IF state = "HOTKEY_TRANSFORM" THEN temporary_message_start
       ELSE message_if_reached

\* MOUSEMOVE while HOTKEY_TRANSFORM
HotkeyMove == TransformStep("HOTKEY_TRANSFORM", FALSE)

\* ESC / RIGHTMOUSE PRESS while HOTKEY_TRANSFORM
HotkeyCancel == TransformStep("HOTKEY_TRANSFORM", TRUE)

\* MOUSEMOVE while WIDGET_TRANSFORM
WidgetMove == TransformStep("WIDGET_TRANSFORM", FALSE)

\* the selected cut re-cut and resampled to the selected path's ring count,
\* its seam left where it is (the cancel of a widget transform)
cancel_widget_transform(g, sel, rs) ==
    ConnectSelectedPath(WithCut(g, sel, ShiftOf(sel), rs))

\* ESC / RIGHTMOUSE PRESS while WIDGET_TRANSFORM: with a hot key the cut is
\* re-cut and the gesture goes on, without one the event is ignored
WidgetCancel ==
    /\ Event("WidgetCancel")
    /\ UNCHANGED <<cut_lines, dest_bme>>
    /\ calls' = <<>>
    /\ cursor_cuts' = <<>>
    /\ UNCHANGED contour_mesh_cache
    /\ running /\ mode = "LOOP" /\ modal_state = "WIDGET_TRANSFORM"
    /\ IF hot_key = "None"
       THEN /\ result' = "RUNNING_MODAL"
            /\ UNCHANGED <<running, mode, modal_state, heap, cut_paths,
                           contour_undo_cache, selected, selected_path, hover_target,
                           force_new, snap, draw_cache, hot_key, pre_action>>
       ELSE IF selected_path = None \/ IsSeries(selected)
       THEN /\ Raise(contour_undo_cache, heap, selected, selected_path)
       ELSE \E rs \in RingChoices(selected_path) :
            /\ heap' = SetLive(heap, cancel_widget_transform(Live, selected, rs))
            /\ result' = "RUNNING_MODAL"
            /\ UNCHANGED <<running, mode, modal_state, cut_paths, contour_undo_cache,
                           selected, selected_path, hover_target, force_new, snap,
                           draw_cache, hot_key, pre_action>>
    /\ timer_kept

\* the gesture is confirmed: update_backbone, back to WAITING; the widget
\* release sets modal_state before update_backbone, the hotkey confirm after
TransformConfirm(state) ==
    /\ Event("TransformConfirm")
    /\ UNCHANGED <<cut_lines, dest_bme>>
    /\ calls' = <<>>
    /\ cursor_cuts' = <<>>
    /\ UNCHANGED contour_mesh_cache
    /\ running /\ mode = "LOOP" /\ modal_state = state
    /\ IF selected_path = None
       THEN /\ running' = FALSE
            /\ result' = "ERROR"
            /\ modal_state' = IF state = "WIDGET_TRANSFORM" THEN "WAITING" ELSE state
            /\ UNCHANGED <<mode, heap, cut_paths, contour_undo_cache, selected,
                           selected_path, hover_target, force_new, snap, draw_cache,
                           hot_key, pre_action>>
       ELSE /\ modal_state' = "WAITING"
            /\ result' = "RUNNING_MODAL"
            /\ UNCHANGED <<running, mode, heap, cut_paths, contour_undo_cache, selected,
                           selected_path, hover_target, force_new, snap, draw_cache,
                           hot_key, pre_action>>
    /\ timer_kept

\* LEFTMOUSE / RET / NUMPAD_ENTER PRESS while HOTKEY_TRANSFORM
HotkeyConfirm == TransformConfirm("HOTKEY_TRANSFORM")

\* LEFTMOUSE RELEASE while WIDGET_TRANSFORM
WidgetRelease == TransformConfirm("WIDGET_TRANSFORM")

----------------------------------------------------------------------------
(* modal, mode GUIDE *)

\* TAB PRESS while WAITING
GuideTab ==
    /\ Event("GuideTab")
    /\ UNCHANGED <<cut_lines, dest_bme>>
    /\ calls' = <<>>
    /\ cursor_cuts' = <<>>
    /\ UNCHANGED contour_mesh_cache
    /\ running /\ mode = "GUIDE" /\ modal_state = "WAITING"
    /\ mode' = "LOOP"
    /\ result' = "RUNNING_MODAL"
    /\ UNCHANGED <<running, modal_state, heap, cut_paths, contour_undo_cache, selected,
                   selected_path, hover_target, force_new, snap, draw_cache, hot_key, pre_action>>
    /\ event_timer_remove

HeadRef(i) == [k |-> "head", p |-> i, c |-> 0]

\* the end cuts hover_guide_mode offers for snapping
EndCuts(g) ==
    UNION {
        (IF ~g[i].existing_head /\ Len(g[i].cuts) > 0 THEN {CutRef(i, 1)} ELSE {})
        \cup (IF Len(g[i].cuts) > 0 THEN {CutRef(i, Len(g[i].cuts))} ELSE {})
        \cup (IF g[i].existing_head /\ Len(g[i].cuts) = 0 THEN {HeadRef(i)} ELSE {})
        : i \in 1..Len(g)}

\* hover_guide_mode: MOUSEMOVE while WAITING, the path under the mouse
\* becomes hover_target and the end cut near the mouse becomes the snap; with
\* no paths both are left as they are. behind: a vertex of an end cut is
\* behind the view, location_3d_to_region_2d answers None and mouse - snap
\* raises once the hover target is set
hover_guide_mode(behind) ==
    /\ Event("hover_guide_mode")
    /\ UNCHANGED <<cut_lines, dest_bme>>
    /\ calls' = <<>>
    /\ cursor_cuts' = <<>>
    /\ UNCHANGED contour_mesh_cache
    /\ running /\ mode = "GUIDE" /\ modal_state = "WAITING"
    /\ behind => ~force_new /\ EndCuts(Live) # {}
    /\ IF Live # <<>>
       THEN hover_target' \in {PathRef(i) : i \in {q \in 1..Len(Live) : Len(Live[q].cuts) > 0}}
                              \cup {None}
       ELSE UNCHANGED hover_target
    /\ IF behind
       THEN /\ running' = FALSE
            /\ result' = "ERROR"
            /\ UNCHANGED snap
       ELSE /\ IF Live # <<>> /\ ~force_new
               THEN snap' \in EndCuts(Live) \cup {SnapEmpty}
               ELSE UNCHANGED snap
            /\ result' = "RUNNING_MODAL"
            /\ UNCHANGED running
    /\ UNCHANGED <<mode, modal_state, heap, cut_paths, contour_undo_cache,
                   selected, selected_path, force_new, draw_cache, hot_key, pre_action>>
    /\ timer_kept

\* LEFTMOUSE PRESS while WAITING over a path: select it
GuideSelect ==
    /\ Event("GuideSelect")
    /\ UNCHANGED <<cut_lines, dest_bme>>
    /\ calls' = <<>>
    /\ cursor_cuts' = <<>>
    /\ UNCHANGED contour_mesh_cache
    /\ running /\ mode = "GUIDE" /\ modal_state = "WAITING"
    /\ IsSeries(hover_target)
    /\ selected_path' = hover_target
    /\ heap' = SetLive(heap,
                  [i \in 1..Len(Live) |->
                      IF hover_target = PathRef(i) THEN do_select(Live[i])
                      ELSE deselect(Live[i])])
    /\ result' = "RUNNING_MODAL"
    /\ UNCHANGED <<running, mode, modal_state, cut_paths, contour_undo_cache, selected,
                   hover_target, force_new, snap, draw_cache, hot_key, pre_action>>
    /\ timer_kept

\* LEFTMOUSE PRESS while WAITING over no path: start a guide stroke
GuideStartDraw ==
    /\ Event("GuideStartDraw")
    /\ UNCHANGED <<cut_lines, dest_bme>>
    /\ calls' = <<>>
    /\ cursor_cuts' = <<>>
    /\ UNCHANGED contour_mesh_cache
    /\ running /\ mode = "GUIDE" /\ modal_state = "WAITING"
    /\ ~IsSeries(hover_target)
    /\ LET s == create_undo_snapshot("DRAW_PATH")
       IN  /\ Snapped(s)
           /\ heap' = s.heap
    /\ modal_state' = "DRAWING"
    /\ UNCHANGED <<mode, cut_paths, selected, selected_path, hover_target, force_new,
                   snap, draw_cache, hot_key>>
    /\ message_if_reached

\* X / DEL PRESS while WAITING with a selected path
GuideDelete ==
    /\ Event("GuideDelete")
    /\ UNCHANGED <<cut_lines, dest_bme>>
    /\ calls' = <<>>
    /\ cursor_cuts' = <<>>
    /\ UNCHANGED contour_mesh_cache
    /\ running /\ mode = "GUIDE" /\ modal_state = "WAITING"
    /\ selected_path # None
    /\ LET s == create_undo_snapshot("DELETE")
           p == selected_path.p
       IN  IF selected_path.k # "path"
           THEN Failed(s, s.heap)
           ELSE /\ Snapped(s)
                /\ heap' = [s.heap EXCEPT ![cut_paths].list = RemoveAt(Live, p)]
                /\ selected_path' = None
                /\ selected' = AfterPathRemoved(selected, p, Live)
                /\ hover_target' = AfterPathRemoved(hover_target, p, Live)
                /\ snap' = SnapAfterPathRemoved(snap, p, Live)
                /\ UNCHANGED <<mode, modal_state, cut_paths, force_new, draw_cache,
                               hot_key>>
    /\ message_if_reached

\* guide_arrow_shift: every cut of the selected path moves its shift by 0.05
\* and is resampled
guide_arrow_shift(path, d) ==
    connect_cuts_to_make_mesh(
        [path EXCEPT !.cuts = [j \in 1..Len(path.cuts) |->
                                  Cut(AddSteps(path.cuts[j].shift, d), path.ring_segments)]])

\* LEFT_ARROW / RIGHT_ARROW PRESS while WAITING with a selected path
GuideArrowShift(d) ==
    /\ Event("GuideArrowShift")
    /\ UNCHANGED <<cut_lines, dest_bme>>
    /\ calls' = <<>>
    /\ cursor_cuts' = <<>>
    /\ UNCHANGED contour_mesh_cache
    /\ running /\ mode = "GUIDE" /\ modal_state = "WAITING"
    /\ selected_path # None
    /\ LET s == create_undo_snapshot("PATH_SHIFT")
           p == selected_path.p
       IN  IF s.raised
           THEN Failed(s, s.heap)
           ELSE /\ Snapped(s)
                /\ heap' = IF selected_path.k = "path"
                           THEN [s.heap EXCEPT ![cut_paths].list[p] = guide_arrow_shift(Live[p], d)]
                           ELSE s.heap
                /\ UNCHANGED <<mode, modal_state, cut_paths, selected, selected_path,
                               hover_target, force_new, snap, draw_cache, hot_key>>
    /\ message_if_reached

\* cuts_on_path: one cut per node of the stroke, each with the path's ring count
cuts_on_path(k, rs) == [j \in 1..k |-> Cut(Zero, rs)]

\* the segment count the PATH_SEGMENTS branch asks for
NewSegments(path, down) ==
    IF ~down THEN path.segments + 1
    ELSE IF path.segments > 3 THEN path.segments - 1
    ELSE path.segments

\* whether the PATH_SEGMENTS branch snapshots
SegmentsSnapshots(path, down) ==
    ~path.seg_lock /\ (~down \/ path.segments > 3)

\* what the PATH_SEGMENTS branch does to the selected path
SegmentsBranch(path, down) ==
    IF ~path.seg_lock
    THEN connect_cuts_to_make_mesh(
             [path EXCEPT !.segments = NewSegments(path, down),
                          !.cuts = cuts_on_path(NewSegments(path, down), path.ring_segments)])
    ELSE path

\* the PATH_SEGMENTS branch on a selected path that is not in cut_paths: the
\* path is resegmented as any other, the live list is not touched
PathSegmentsStale(down) ==
    LET o == selected_path.obj
        snaps == SegmentsSnapshots(o, down)
        s == IF snaps THEN create_undo_snapshot("PATH_SEGMENTS")
             ELSE [raised |-> FALSE, cache |-> contour_undo_cache, heap |-> heap]
        new == IF o.seg_lock THEN o
               ELSE [o EXCEPT !.segments = NewSegments(o, down),
                              !.cuts = NewSegments(o, down)]
    IN  IF s.raised
        THEN Failed(s, s.heap)
        ELSE /\ contour_undo_cache' = s.cache
             /\ pre_action' = IF snaps THEN Seen
                              ELSE IF o.seg_lock THEN pre_action ELSE Unknown
             /\ heap' = s.heap
             /\ selected' = IF o.seg_lock THEN selected
                            ELSE [k |-> "deadcut", p |-> selected_path.p,
                                  c |-> selected_path.c, j |-> new.cuts]
             /\ selected_path' = Rebind(selected_path, selected_path, new)
             /\ hover_target' = IF o.seg_lock THEN hover_target
                                ELSE StaleAfterCutsReplaced(hover_target, selected_path, new)
             /\ snap' = IF o.seg_lock THEN snap
                        ELSE SnapStaleAfterCutsReplaced(snap, selected_path, new)
             /\ result' = "RUNNING_MODAL"
             /\ UNCHANGED <<running, mode, modal_state, cut_paths, force_new,
                            draw_cache, hot_key>>

\* Ctrl + wheel, or NUMPAD_PLUS / NUMPAD_MINUS, while WAITING with a selected
\* path
GuidePathSegments(down) ==
    /\ Event("GuidePathSegments")
    /\ UNCHANGED <<cut_lines, dest_bme>>
    /\ calls' = <<>>
    /\ cursor_cuts' = <<>>
    /\ UNCHANGED contour_mesh_cache
    /\ running /\ mode = "GUIDE" /\ modal_state = "WAITING"
    /\ selected_path # None
    /\ LET p == selected_path.p
           path == Live[p]
           snaps == SegmentsSnapshots(path, down)
           s == IF snaps THEN create_undo_snapshot("PATH_SEGMENTS")
                ELSE [raised |-> FALSE, cache |-> contour_undo_cache, heap |-> heap]
       IN  IF selected_path.k # "path"
           THEN PathSegmentsStale(down)
           ELSE IF s.raised
           THEN Failed(s, s.heap)
           ELSE /\ contour_undo_cache' = s.cache
                /\ pre_action' = IF snaps THEN Seen
                                 ELSE IF path.seg_lock THEN pre_action ELSE Unknown
                /\ heap' = [s.heap EXCEPT ![cut_paths].list[p] = SegmentsBranch(path, down)]
                /\ selected' = IF path.seg_lock THEN selected
                               ELSE CutRef(p, NewSegments(path, down))
                /\ hover_target' = IF path.seg_lock THEN hover_target
                                   ELSE AfterCutsReplaced(hover_target, p)
                /\ snap' = IF path.seg_lock THEN snap ELSE SnapAfterCutsReplaced(snap, p)
                /\ result' = "RUNNING_MODAL"
                /\ UNCHANGED <<running, mode, modal_state, cut_paths, selected_path,
                               force_new, draw_cache, hot_key>>
    /\ message_if_reached

\* Shift / Ctrl / Alt + S PRESS while WAITING with a selected path: the
\* normals are smoothed, the cuts keep their shift and vertex count and the
\* bridge faces are computed again
GuideSmooth ==
    /\ Event("GuideSmooth")
    /\ UNCHANGED <<cut_lines, dest_bme>>
    /\ calls' = <<>>
    /\ cursor_cuts' = <<>>
    /\ UNCHANGED contour_mesh_cache
    /\ running /\ mode = "GUIDE" /\ modal_state = "WAITING"
    /\ selected_path # None
    /\ LET s == create_undo_snapshot("SMOOTH")
       IN  /\ Snapped(s)
           /\ heap' = [s.heap EXCEPT ![cut_paths].list = ConnectSelectedPath(Live)]
    /\ UNCHANGED <<mode, modal_state, cut_paths, selected, selected_path, hover_target,
                   force_new, snap, draw_cache, hot_key>>
    /\ message_if_reached

\* the cut indices the plain S handler reads for a path of n cuts: half, and
\* half + 1 too when math.fmod(n, 2) is not zero
cursor_reads(n) ==
    LET half == n \div 2
    IN  IF n % 2 # 0 THEN <<half, half + 1>> ELSE <<half>>

\* an index outside 0..n-1 raises IndexError
InRange(reads, n) == \A i \in 1..Len(reads) : reads[i] \in 0..(n - 1)

\* S PRESS alone with a selected path, in cut_paths or not: the 3D cursor
\* goes to the mean of the centres of the cuts read
GuideCursor ==
    /\ Event("GuideCursor")
    /\ UNCHANGED <<cut_lines, dest_bme>>
    /\ calls' = <<>>
    /\ UNCHANGED contour_mesh_cache
    /\ running /\ mode = "GUIDE" /\ modal_state = "WAITING"
    /\ selected_path # None
    /\ LET n == SelectedPathObj(selected_path).cuts
       IN  IF ~InRange(cursor_reads(n), n)
           THEN /\ Raise(contour_undo_cache, heap, selected, selected_path)
                /\ cursor_cuts' = <<>>
           ELSE /\ result' = "RUNNING_MODAL"
                /\ cursor_cuts' = cursor_reads(n)
                /\ UNCHANGED <<running, mode, modal_state, heap, cut_paths,
                               contour_undo_cache, selected, selected_path, hover_target,
                               force_new, snap, draw_cache, hot_key, pre_action>>
    /\ timer_kept

\* MOUSEMOVE while DRAWING: one more screen point. The points of a stroke
\* are bounded by MaxPoints and are not counted among the MaxEvents events;
\* they arrive while an event is left to end the stroke with
DrawMove ==
    /\ last' = "DrawMove"
    /\ events < MaxSetup
    /\ UNCHANGED events
    /\ UNCHANGED <<cut_lines, dest_bme>>
    /\ calls' = <<>>
    /\ cursor_cuts' = <<>>
    /\ UNCHANGED contour_mesh_cache
    /\ running /\ mode = "GUIDE" /\ modal_state = "DRAWING"
    /\ draw_cache < MaxPoints
    /\ draw_cache' = draw_cache + 1
    /\ result' = "RUNNING_MODAL"
    /\ UNCHANGED <<running, mode, modal_state, heap, cut_paths, contour_undo_cache,
                   selected, selected_path, hover_target, force_new, snap, hot_key, pre_action>>
    /\ timer_kept

AfterCutsPrepended(r, p, k) ==
    IF r.k = "cut" /\ r.p = p THEN CutRef(p, r.c + k) ELSE r

\* path.snap_merge_into_other(merge_series, merge_ring): the stroke's cuts
\* join the target at the anchored end, resampled to the target's ring count
snap_merge_into_other(target, atfront) ==
    LET new == cuts_on_path(ring_count, target.ring_segments)
    IN  connect_cuts_to_make_mesh(
            [target EXCEPT !.cuts = IF atfront THEN new \o target.cuts
                                    ELSE target.cuts \o new])

\* a stroke test that every stroke passes
any_stroke(n) == TRUE

\* len(self.draw_cache) > 10: the stroke is long enough to make a path
long_stroke(n) == n > MinStroke

\* a merge that returns no path
no_series(sn) == None

\* merge_series = self.snap[0]: the path the stroke is merged into, which
\* new_path_from_draw returns
merge_series(sn) ==
    IF sn.k \in {"cut", "head", "lostcut"} THEN PathRef(sn.p) ELSE SeriesOf(sn)

\* cuts[-1] of the path object sn names, a path outside the live list
LastOf(sn) ==
    IF sn.obj.cuts > 0
    THEN [k |-> "deadcut", p |-> sn.p, c |-> sn.c, j |-> sn.obj.cuts]
    ELSE None

\* snap_merge_into_other on a target that is not in cut_paths
StaleMerge(o) == [o EXCEPT !.cuts = o.cuts + ring_count]

\* the calls new_path_from_draw makes on the stroke's path before it looks
\* at the snap target
cast_stages == <<"ray_cast_path", "find_knots">>

\* a construction that connects the cuts before it has made them
build_stages_swapped ==
    <<"smooth_path", "create_cut_nodes", "snap_to_object", "connect_cuts_to_make_mesh",
      "cuts_on_path", "backbone_from_cuts", "update_visibility">>

\* the calls new_path_from_draw makes on a path of its own, in this order
build_stages ==
    <<"smooth_path", "create_cut_nodes", "snap_to_object", "cuts_on_path",
      "connect_cuts_to_make_mesh", "backbone_from_cuts", "update_visibility">>

\* LEFTMOUSE RELEASE while DRAWING; hit: ray_cast_path found surface points,
\* k: the cuts cuts_on_path could make
new_path_from_draw(hit, k) ==
    /\ Event("new_path_from_draw")
    /\ UNCHANGED <<cut_lines, dest_bme, contour_mesh_cache>>
    /\ cursor_cuts' = <<>>
    /\ running /\ mode = "GUIDE" /\ modal_state = "DRAWING"
    /\ IF long_stroke(draw_cache)
       THEN LET g == DeselectOthers(Live, 0)
                p == snap.p
                atfront == snap.k = "cut" /\ snap.c = 1 /\ Len(g[p].cuts) > 1
            IN  IF ~hit
                THEN /\ heap' = SetLive(heap, g)
                     /\ calls' = <<cast_stages[1]>>
                     /\ selected_path' = None
                     /\ force_new' = FALSE
                     /\ modal_state' = "WAITING"
                     /\ result' = "RUNNING_MODAL"
                     /\ UNCHANGED <<running, selected, hover_target, snap, pre_action>>
                ELSE IF snap # SnapEmpty /\ ~force_new
                THEN IF snap = None
                     THEN /\ running' = FALSE
                          /\ result' = "ERROR"
                          /\ calls' = cast_stages
                          /\ heap' = SetLive(heap, g)
                          /\ UNCHANGED <<modal_state, selected, selected_path, hover_target,
                                         snap, force_new, pre_action>>
                     ELSE IF snap.k \in {"cut", "head"}
                     THEN /\ heap' = SetLive(heap,
                                        [g EXCEPT ![p] =
                                            do_select(snap_merge_into_other(g[p], atfront))])
                          /\ calls' = Append(cast_stages, "snap_merge_into_other")
                          /\ selected_path' = merge_series(snap)
                          /\ selected' = CutRef(p, Len(g[p].cuts) + ring_count)
                          /\ hover_target' = IF atfront
                                             THEN AfterCutsPrepended(hover_target, p, ring_count)
                                             ELSE hover_target
                          /\ snap' = IF atfront
                                     THEN AfterCutsPrepended(snap, p, ring_count)
                                     ELSE snap
                          /\ force_new' = FALSE
                          /\ modal_state' = "WAITING"
                          /\ result' = "RUNNING_MODAL"
                          /\ UNCHANGED <<running, pre_action>>
                     ELSE IF snap.k = "lostcut"
                     THEN \* the anchor left its path: nothing is spliced
                          /\ heap' = SetLive(heap, [g EXCEPT ![p] = do_select(g[p])])
                          /\ calls' = Append(cast_stages, "snap_merge_into_other")
                          /\ selected_path' = merge_series(snap)
                          /\ selected' = IF g[p].cuts # <<>> THEN CutRef(p, Len(g[p].cuts))
                                         ELSE None
                          /\ force_new' = FALSE
                          /\ modal_state' = "WAITING"
                          /\ result' = "RUNNING_MODAL"
                          /\ UNCHANGED <<running, hover_target, snap, pre_action>>
                     ELSE IF snap.k = "deadlost"
                     THEN \* the same on a target that is not in cut_paths
                          /\ heap' = SetLive(heap, g)
                          /\ calls' = Append(cast_stages, "snap_merge_into_other")
                          /\ selected_path' = merge_series(snap)
                          /\ selected' = LastOf(snap)
                          /\ force_new' = FALSE
                          /\ modal_state' = "WAITING"
                          /\ result' = "RUNNING_MODAL"
                          /\ UNCHANGED <<running, hover_target, snap, pre_action>>
                     ELSE \* the target is not in cut_paths: it takes the cuts
                          \* at the anchored end
                          LET o == StaleMerge(snap.obj)
                              front == snap.k = "deadcut" /\ snap.j = 1 /\ snap.obj.cuts > 1
                              n == IF front THEN ring_count ELSE 0
                          IN  /\ heap' = SetLive(heap, g)
                              /\ calls' = Append(cast_stages, "snap_merge_into_other")
                              /\ snap' = SnapStaleAfterCutsPrepended(snap, snap, n, o)
                              /\ selected_path' = merge_series(snap')
                              /\ selected' = LastOf(snap')
                              /\ hover_target' = StaleAfterCutsPrepended(hover_target, snap, n, o)
                              /\ force_new' = FALSE
                              /\ modal_state' = "WAITING"
                              /\ result' = "RUNNING_MODAL"
                              /\ UNCHANGED <<running, pre_action>>
                ELSE /\ heap' = SetLive(heap,
                                   Append(g, Path(cuts_on_path(k, vertex_count), FALSE, FALSE,
                                                  FALSE, ring_count, vertex_count, TRUE)))
                     /\ calls' = Append(cast_stages \o build_stages, "append")
                     /\ selected_path' = PathRef(Len(g) + 1)
                     /\ selected' = IF k > 0 THEN CutRef(Len(g) + 1, k) ELSE None
                     /\ force_new' = FALSE
                     /\ modal_state' = "WAITING"
                     /\ result' = "RUNNING_MODAL"
                     /\ UNCHANGED <<running, hover_target, snap, pre_action>>
       ELSE /\ modal_state' = "WAITING"
            /\ result' = "RUNNING_MODAL"
            /\ calls' = <<>>
            /\ UNCHANGED <<running, heap, selected, selected_path, hover_target, snap,
                           force_new, pre_action>>
    /\ UNCHANGED <<mode, cut_paths, contour_undo_cache, hot_key>>
    \* self.draw_cache = [] follows the call of new_path_from_draw
    /\ draw_cache' = IF running' THEN 0 ELSE draw_cache
    /\ timer_kept

DrawRelease == \E hit \in BOOLEAN, k \in {0, ring_count} : new_path_from_draw(hit, k)

----------------------------------------------------------------------------
(* The operator's behaviours *)

Next ==
    \/ InvokeRefused
    \/ Invoke
    \/ cache_clear
    \/ KeyUndo
    \/ NavigateStart
    \/ NavigateEnd
    \/ \E type \in CancelInputs : Cancel(type)
    \/ \E expired \in BOOLEAN : Timer(expired)
    \/ finish_mesh
    \/ ForceNew
    \/ CenterView
    \/ Zoom
    \/ LoopTab
    \/ hover_loop_mode
    \/ \E shift \in BOOLEAN : LoopSelect(shift)
    \/ LoopCursor
    \/ LoopWidgetGrab
    \/ click_new_cut
    \/ \E key \in {"G", "R"}, behind \in BOOLEAN : loop_hotkey_modal(key, behind)
    \/ LoopDelete
    \/ \E d \in {-1, 1} : LoopArrowShift(d)
    \/ \E both \in BOOLEAN : LoopAlign(both)
    \/ \E down \in BOOLEAN : LoopRingSegments(down)
    \/ ReleasePlaceCut
    \/ HotkeyMove
    \/ HotkeyConfirm
    \/ HotkeyCancel
    \/ WidgetMove
    \/ WidgetRelease
    \/ WidgetCancel
    \/ GuideTab
    \/ \E behind \in BOOLEAN : hover_guide_mode(behind)
    \/ GuideSelect
    \/ GuideStartDraw
    \/ GuideDelete
    \/ \E d \in {-1, 1} : GuideArrowShift(d)
    \/ \E down \in BOOLEAN : GuidePathSegments(down)
    \/ GuideSmooth
    \/ GuideCursor
    \/ DrawMove
    \/ DrawRelease

Spec == Init /\ [][Next]_vars

----------------------------------------------------------------------------
(* The State Snapshot Manager: properties *)

\* the undo stack by value, before and after a step
StackBefore == Stored(contour_undo_cache, heap)
StackAfter == Stored(contour_undo_cache', heap')

\* cut_paths after Ctrl+Z is pressed k times
RECURSIVE UndoTimes(_, _, _, _)
UndoTimes(cache, live, h, k) ==
    IF k = 0 THEN h[live].list
    ELSE LET u == undo_action(cache, live, h, mode, modal_state, selected,
                              selected_path, None, SnapEmpty)
         IN  UndoTimes(u.cache, u.cut_paths, u.heap, k - 1)

\* the label each handler that always snapshots passes to create_undo_snapshot
CallOf ==
    [h \in {"LoopWidgetGrab", "click_new_cut", "loop_hotkey_modal", "LoopDelete",
            "LoopArrowShift", "LoopAlign", "LoopRingSegments", "GuideStartDraw",
            "GuideDelete", "GuideArrowShift", "GuideSmooth"} |->
        CASE h = "LoopWidgetGrab" -> "WIDGET_TRANSFORM"
          [] h = "click_new_cut" -> "CUTTING"
          [] h = "loop_hotkey_modal" -> "HOTKEY_TRANSFORM"
          [] h \in {"LoopDelete", "GuideDelete"} -> "DELETE"
          [] h = "LoopArrowShift" -> "LOOP_SHIFT"
          [] h = "LoopAlign" -> "ALIGN"
          [] h = "LoopRingSegments" -> "RING_SEGMENTS"
          [] h = "GuideStartDraw" -> "DRAW_PATH"
          [] h = "GuideArrowShift" -> "PATH_SHIFT"
          [] h = "GuideSmooth" -> "SMOOTH"]

\* create_undo_snapshot(label) reaches contour_undo_cache.append: the label
\* is not a repeated action, or the top entry has another label
Appends(label) ==
    ~(/\ label \in repeated_actions
      /\ contour_undo_cache = <<>> \/ Last(contour_undo_cache).action = label)

\* the step put a new entry on top of the stack, equal or not to the ones
\* that were there
PushedEntry ==
    \/ last' \in DOMAIN CallOf /\ Appends(CallOf[last'])
    \/ \E down \in BOOLEAN :
          /\ GuidePathSegments(down)
          /\ SegmentsSnapshots(SelectedPathObj(selected_path), down)
          /\ Appends("PATH_SEGMENTS")

\* C1 as stated: Ctrl+Z restores cut_paths to the value it had before the
\* latest mutating action (the case k = 1 of "k presses restore the value of
\* k mutating actions earlier")
C1_UndoRestoresPreviousAction ==
    [][(last' = "KeyUndo" /\ pre_action.known) => Live' = pre_action.list]_vars

\* C1 amended: an entry pushed on the stack holds the value cut_paths had
\* just before the action that pushed it, and pressing Ctrl+Z k times, for
\* every k up to the number of entries, restores cut_paths to what the k-th
\* most recent entry holds
C1_UndoRestoresSnapshots ==
    [][/\ PushedEntry => Last(StackAfter).list = Live
       /\ \A k \in 1..Len(contour_undo_cache) :
              UndoTimes(contour_undo_cache, cut_paths, heap, k)
                  = StackBefore[Len(StackBefore) - k + 1].list]_vars

\* Ctrl+Z has popped an entry, restored a graph with cuts in it and left an
\* entry for the next press
C1_Witness ==
    /\ last = "KeyUndo"
    /\ contour_undo_cache # <<>>
    /\ \E i \in 1..Len(Live) : Live[i].cuts # <<>>

\* C2: with a non-empty stack undo_action, from Ctrl+Z or from a recovering
\* invoke, removes the newest entry, keeps the others in their order and
\* makes cut_paths what that entry holds
C2_UndoPopsNewest ==
    [][(/\ contour_undo_cache # <<>>
        /\ \/ KeyUndo
           \/ \E loop \in {0} \cup ExistingLoopSizes, target \in Targets,
                 edit \in BOOLEAN, has_tmp \in BOOLEAN :
                  /\ is_object_valid(contour_mesh_cache, target)
                  /\ invoke(loop, TRUE, target, edit, has_tmp))
       => (/\ StackAfter = Front(StackBefore)
           /\ Live' = Last(StackBefore).list)]_vars

\* Ctrl+Z has popped the newest of two entries and a selection came back
C2_Witness ==
    /\ last = "KeyUndo"
    /\ Len(contour_undo_cache) = 1
    /\ selected.k = "cut"

\* C3 as stated: a call of create_undo_snapshot leaves the stack as it is when
\* the label is coalescible and is the top entry's label, and in every other
\* case puts one new entry (the graph, the operator state, the label) on top
C3_SnapshotAppendsOrCoalesces ==
    [][last' \in DOMAIN CallOf =>
          LET label == CallOf[last']
          IN  IF /\ label \in repeated_actions
                 /\ contour_undo_cache # <<>>
                 /\ Last(contour_undo_cache).action = label
              THEN StackAfter = StackBefore
              ELSE /\ StackAfter # <<>>
                   /\ Last(StackAfter) = [list |-> Live, state |-> ContourStatePreserver,
                                          action |-> label]
                   /\ Front(StackAfter) \in
                          {StackBefore} \cup (IF StackBefore = <<>> THEN {}
                                              ELSE {Tail(StackBefore)})]_vars

\* C4 as stated: an event that directly follows an event of its own kind, a
\* loop shift, a path shift, a ring-count or a segment-count change that
\* snapshotted, adds no entry to the stack
C4_RunsAddOneSnapshot ==
    [][(/\ last' = last
        /\ last \in {"LoopArrowShift", "GuideArrowShift", "LoopRingSegments",
                     "GuidePathSegments"}
        /\ pre_action.known)
       => StackAfter = StackBefore]_vars

\* C5: the stack never holds more than undo_depth entries, and a push onto
\* a full stack drops the oldest entry and keeps the others in push order
C5_DepthBoundedOldestEvicted ==
    [][/\ Len(contour_undo_cache') <= undo_depth
       /\ PushedEntry =>
              Front(StackAfter) = IF Len(StackBefore) < undo_depth THEN StackBefore
                                  ELSE Tail(StackBefore)]_vars

\* a full stack of hotkey transforms: the CUTTING entry that made the cut
\* they move was pushed first and is gone
C5_Witness ==
    /\ last = "loop_hotkey_modal"
    /\ Len(contour_undo_cache) = undo_depth
    /\ \A i \in 1..Len(contour_undo_cache) :
           contour_undo_cache[i].action = "HOTKEY_TRANSFORM"

\* C6 as stated: no call of create_undo_snapshot raises, whatever the label
\* and the stack
C6_SnapshotNeverRaises ==
    [][last' \in DOMAIN CallOf => ~create_undo_snapshot(CallOf[last']).raised]_vars

\* C7: Ctrl+Z on an empty stack changes none of cut_paths, selected,
\* selected_path, mode and modal_state, leaves the stack empty and raises
\* nothing
C7_EmptyUndoIsNoOp ==
    [][(KeyUndo /\ contour_undo_cache = <<>>)
       => (/\ cut_paths' = cut_paths
           /\ Live' = Live
           /\ selected' = selected
           /\ selected_path' = selected_path
           /\ mode' = mode
           /\ modal_state' = modal_state
           /\ contour_undo_cache' = <<>>
           /\ running'
           /\ result' # "ERROR")]_vars

\* Ctrl+Z found nothing to undo while a path was selected
C7_Witness ==
    /\ last = "KeyUndo/empty"
    /\ selected_path.k = "path"
    /\ Live # <<>>

\* C8: whatever a step does to the live graph, the entries that stay on the
\* stack hold what they held (the stack changes only by a pop of the newest
\* or by a push, with or without the eviction of the oldest), and no entry
\* references the list object that is cut_paths
C8_StoredEntriesAreFrozen ==
    [][/\ \/ StackAfter = StackBefore
          \/ StackBefore # <<>> /\ StackAfter = Front(StackBefore)
          \/ StackAfter # <<>> /\ Front(StackAfter) = StackBefore
          \/ /\ StackAfter # <<>> /\ StackBefore # <<>>
             /\ Front(StackAfter) = Tail(StackBefore)
       /\ cut_paths' \notin CacheOids(contour_undo_cache')]_vars

\* a loop shift has changed the live graph and the newest entry still holds
\* the graph from before it
C8_Witness ==
    /\ last = "LoopArrowShift"
    /\ running
    /\ contour_undo_cache # <<>>
    /\ Last(contour_undo_cache).action = "LOOP_SHIFT"
    /\ Last(StackBefore).list # Live

\* the selected path is in the live list and has ring_lock set
RingLocked == selected_path.k = "path" /\ Live[selected_path.p].ring_lock

\* the selected path is in the live list and has seg_lock set
SegLocked == selected_path.k = "path" /\ Live[selected_path.p].seg_lock

\* C9: a ring-count change event on a selected path with ring_lock leaves the
\* path's ring_segments and every cut's shift and vertex count as they were
C9_RingLockKeepsPath ==
    [][(last' = "LoopRingSegments" /\ RingLocked)
       => (/\ Len(Live') >= selected_path.p
           /\ Live'[selected_path.p].ring_segments = Live[selected_path.p].ring_segments
           /\ Live'[selected_path.p].cuts = Live[selected_path.p].cuts)]_vars

\* a ring-count change event was handled with a cut selected on a path
\* that has ring_lock
C9_Witness ==
    /\ last = "LoopRingSegments"
    /\ running
    /\ RingLocked
    /\ selected.k = "cut"
    /\ Live[selected_path.p].cuts # <<>>

\* C10 as stated: a ring-count change on a ring_lock path and a segment-count
\* change on a seg_lock path leave cut_paths, the selection and the undo
\* stack exactly as they were
C10_LockedRequestChangesNothing ==
    [][(\/ last' = "LoopRingSegments" /\ RingLocked
        \/ last' = "GuidePathSegments" /\ SegLocked)
       => (/\ Live' = Live
           /\ selected' = selected
           /\ selected_path' = selected_path
           /\ StackAfter = StackBefore)]_vars

----------------------------------------------------------------------------
(* Paths, cuts and gestures: properties *)

\* C11 as stated: a segment-count event on a selected path of the live list
\* moves its segments by exactly +1 (up) or, above 3, by exactly -1 (down)
\* when seg_lock is clear, leaves segments of 3 or fewer alone on a down
\* event, and never changes segments while seg_lock is set
C11_SegmentsStepByOne ==
    [][\A down \in BOOLEAN :
          (GuidePathSegments(down) /\ selected_path.k = "path")
          => LET p == selected_path.p
                 old == Live[p].segments
             IN  /\ Len(Live') >= p
                 /\ Live'[p].segments =
                        IF Live[p].seg_lock THEN old
                        ELSE IF ~down THEN old + 1
                        ELSE IF old > 3 THEN old - 1
                        ELSE old]_vars

\* every cut of the path has as many vertices as the path's ring_segments
RingConsistent(path) ==
    \A j \in 1..Len(path.cuts) : path.cuts[j].n = path.ring_segments

\* the geometry of a path: its cuts and its counts
Geometry(path) ==
    [cuts |-> path.cuts, segments |-> path.segments, ring_segments |-> path.ring_segments]

\* the paths of the live list whose geometry the step changed, and the path
\* it appended
ChangedPaths ==
    IF Len(Live') = Len(Live)
    THEN {i \in 1..Len(Live) : Geometry(Live'[i]) # Geometry(Live[i])}
    ELSE IF Len(Live') = Len(Live) + 1 /\ Front(Live') = DeselectOthers(Live, 0)
    THEN {Len(Live')}
    ELSE {}

\* the handlers that change a path: ring count, segment count, cut
\* insertion, stroke merge, transforms, shifts and alignment
PathChangers ==
    {"LoopRingSegments", "GuidePathSegments", "release_place_cut", "new_path_from_draw",
     "TransformStep", "WidgetCancel", "LoopArrowShift", "GuideArrowShift",
     "LoopAlign"}

\* C12 as stated: after an event that succeeds in changing a path, every cut
\* of that path has as many vertices as the path's ring_segments
C12_ChangedPathRingConsistent ==
    [][(last' \in PathChangers /\ running')
       => \A i \in ChangedPaths : RingConsistent(Live'[i])]_vars

\* C13: a placed cut that no path accepts (or that is forced into a new
\* path) appends exactly one path holding that one cut and leaves the cuts of
\* every existing path alone; a cut that a path accepts gives exactly the
\* first accepting path exactly one more cut, keeps the number of paths and
\* sets that path's seg_lock
C13_CutJoinsFirstAcceptingPath ==
    [][\A first \in 0..Len(Live) :
       \A pos \in 1..(IF first = 0 THEN 1 ELSE Len(Live[first].cuts) + 1) :
          release_place_cut("placed", first, pos)
          => IF first = 0
             THEN /\ Len(Live') = Len(Live) + 1
                  /\ Last(Live').cuts = <<Cut(Zero, vertex_count)>>
                  /\ \A i \in 1..Len(Live) : Live'[i].cuts = Live[i].cuts
             ELSE /\ Len(Live') = Len(Live)
                  /\ Len(Live'[first].cuts) = Len(Live[first].cuts) + 1
                  /\ Live'[first].seg_lock
                  /\ \A i \in 1..Len(Live) :
                         i # first => Live'[i].cuts = Live[i].cuts]_vars

\* a third cut was placed with two paths in the graph: the first path took
\* it between its ends and is locked, the second path kept its one cut
C13_Witness ==
    /\ last = "release_place_cut"
    /\ Len(Live) = 2
    /\ selected.k = "cut" /\ selected.p = 1
    /\ Live[1].seg_lock
    /\ Len(Live[1].cuts) = 2
    /\ Len(Live[2].cuts) = 1

\* C14 as stated: X in LOOP mode with a cut selected and a selected path of
\* the live list removes only that cut (its path loses it, every other path
\* keeps its cuts) when the selected path has more than one cut, or exactly
\* one cut and an existing head; otherwise it removes the whole selected path
\* and selected_path becomes None; selected becomes None in both cases
C14_DeleteCutOrPath ==
    [][(LoopDelete /\ selected.k = "cut" /\ selected_path.k = "path")
       => LET p == selected_path.p
              path == Live[p]
          IN  /\ selected' = None
              /\ IF Len(path.cuts) > 1 \/ (Len(path.cuts) = 1 /\ path.existing_head)
                 THEN /\ Len(Live') = Len(Live)
                      /\ \A i \in 1..Len(Live) :
                             Live'[i].cuts = IF i = selected.p
                                             THEN RemoveAt(Live[i].cuts, selected.c)
                                             ELSE Live[i].cuts
                      /\ selected_path' = selected_path
                 ELSE /\ Live' = RemoveAt(Live, p)
                      /\ selected_path' = None]_vars

\* the path but for its selection flag
Unselected(path) == [path EXCEPT !.select = FALSE]

\* C15: a guide stroke released with 10 or fewer screen points, or one whose
\* ray cast found no surface point, creates no path: cut_paths holds the
\* same paths with the same cuts, counts and locks as before
C15_FailedStrokeCreatesNoPath ==
    [][\A hit \in BOOLEAN, k \in {0, ring_count} :
          (new_path_from_draw(hit, k) /\ (draw_cache <= MinStroke \/ ~hit))
          => /\ cut_paths' = cut_paths
             /\ Len(Live') = Len(Live)
             /\ \A i \in 1..Len(Live) : Unselected(Live'[i]) = Unselected(Live[i])]_vars

\* a stroke of more than 10 points that missed the surface was released
\* over a graph that holds a path with a cut
C15_Witness ==
    /\ last = "new_path_from_draw"
    /\ running /\ modal_state = "WAITING"
    /\ selected_path = None
    /\ \E i \in 1..Len(Live) : Live[i].cuts # <<>>

\* C16 as stated: a failed guide stroke, too short or entirely off the
\* surface, leaves selected_path and every path's select flag as they were
C16_FailedStrokeKeepsSelection ==
    [][\A hit \in BOOLEAN, k \in {0, ring_count} :
          (new_path_from_draw(hit, k) /\ (draw_cache <= MinStroke \/ ~hit))
          => /\ selected_path' = selected_path
             /\ Len(Live') = Len(Live)
             /\ \A i \in 1..Len(Live) : Live'[i].select = Live[i].select]_vars

\* C17 as stated: a placement that fails, the stroke under 20 pixels, the
\* stroke off the mesh or the cross-section without vertices, discards the
\* attempted cut: it leaves cut_lines, selected becomes None, cut_paths is
\* as it was and modal_state is WAITING again
C17_FailedPlacementDiscardsCut ==
    [][\A outcome \in PlaceOutcomes \ {"placed"} :
          release_place_cut(outcome, 0, 1)
          => /\ cut_lines' = cut_lines - 1
             /\ selected' = None
             /\ cut_paths' = cut_paths
             /\ Live' = Live
             /\ modal_state' = "WAITING"]_vars

\* C18 as stated: ESC or RIGHTMOUSE during a transform gesture, started by a
\* hot key or on the widget, aborts it: the selected cut is re-cut and
\* resampled to the selected path's ring count, and modal_state is WAITING
\* again
C18_EscapeAbortsTransform ==
    [][(HotkeyCancel \/ WidgetCancel)
       => (/\ running'
           /\ modal_state' = "WAITING"
           /\ selected.k = "cut" =>
                  Live'[selected.p].cuts[selected.c].n \in RingChoices(selected_path))]_vars

\* C19: finish_mesh runs only while modal_state is WAITING, pushes every
\* path of cut_paths into the destination mesh exactly once, in order, and
\* returns FINISHED; nothing else writes to the destination mesh, and once
\* the session is over no event is handled until the operator is invoked
\* again (the Clear Contour Cache button belongs to another operator)
C19_GraphConsumedOnce ==
    [][/\ finish_mesh => (/\ running /\ modal_state = "WAITING"
                          /\ dest_bme = <<>>
                          /\ dest_bme' = Live
                          /\ result' = "FINISHED"
                          /\ ~running')
       /\ dest_bme' # dest_bme => (finish_mesh \/ Invoke)
       /\ result' = "FINISHED" => (finish_mesh \/ InvokeRefused \/ result = "FINISHED")
       /\ ~running => (Invoke \/ InvokeRefused \/ cache_clear)]_vars

\* the session has finished and two paths, the first with a cut in it, were
\* pushed into the destination mesh
C19_Witness ==
    /\ last = "finish_mesh"
    /\ result = "FINISHED"
    /\ ~running
    /\ Len(dest_bme) = 2
    /\ dest_bme[1].cuts # <<>>

\* the states and the modes of the operator
ModalStates ==
    {"WAITING", "DRAWING", "CUTTING", "HOTKEY_TRANSFORM", "WIDGET_TRANSFORM", "NAVIGATING"}
Modes == {"LOOP", "GUIDE"}

\* C20 as stated: modal_state is always one of the six states and mode is
\* always LOOP or GUIDE, and when invoke returns RUNNING_MODAL the session
\* starts in mode LOOP with modal_state WAITING
C20_StatesAndStart ==
    [][/\ modal_state' \in ModalStates
       /\ mode' \in Modes
       /\ Invoke => (mode' = "LOOP" /\ modal_state' = "WAITING")]_vars

\* C21 as stated: between events no path of cut_paths holds bridge faces
\* older than its cuts: every handler that changes cuts of a path has called
\* connect_cuts_to_make_mesh on that path before it returned
C21_BridgeFacesCurrent ==
    running => \A i \in 1..Len(Live) : Live[i].faces = Live[i].cuts

\* the calls of s that are among the names of order, in the order s made them
RECURSIVE Only(_, _)
Only(s, names) ==
    IF s = <<>> THEN <<>>
    ELSE IF Head(s) \in names THEN <<Head(s)>> \o Only(Tail(s), names)
    ELSE Only(Tail(s), names)

\* the construction stages of a path, in the order of its state machine
StageOrder ==
    <<"ray_cast_path", "find_knots", "smooth_path", "create_cut_nodes", "cuts_on_path",
      "connect_cuts_to_make_mesh", "update_visibility">>

StageNames == {StageOrder[i] : i \in 1..Len(StageOrder)}

\* snap holds a [path, end_cut] pair: an end cut or the head of a path of the
\* live list, or of a path that has left it
SnapTarget == snap.k \in {"cut", "head", "lostcut"} \cup DeadEnds

\* C22 as stated: new_path_from_draw runs the seven construction stages in
\* the fixed order, none skipped, and appends the path to cut_paths only
\* after the last of them; when ray_cast_path finds no surface point no later
\* stage runs and nothing is appended
C22_StagesInFixedOrder ==
    [][\A hit \in BOOLEAN, k \in {0, ring_count} :
          (new_path_from_draw(hit, k) /\ long_stroke(draw_cache))
          => IF hit
             THEN /\ Only(calls', StageNames) = StageOrder
                  /\ Last(calls') = "append"
                  /\ Len(Live') = Len(Live) + 1
             ELSE /\ calls' = <<"ray_cast_path">>
                  /\ Len(Live') = Len(Live)]_vars

\* C22 amended: a stroke that hits the surface and is not merged (snap is
\* the empty list or force_new is set) runs the seven stages in the fixed
\* order, none skipped, and the path is appended after the last of them; a
\* stroke that finds no surface point runs ray_cast_path alone and appends
\* nothing; with a [path, cut] pair in snap and force_new False the stroke's
\* path is handed to snap_merge_into_other after find_knots, no later stage
\* runs on it and nothing is appended; with snap None and force_new False
\* the handler raises after find_knots: nothing is handed over or appended
C22_StagesInFixedOrderUnlessMerged ==
    [][\A hit \in BOOLEAN, k \in {0, ring_count} :
          (new_path_from_draw(hit, k) /\ long_stroke(draw_cache))
          => IF ~hit
             THEN /\ calls' = <<"ray_cast_path">>
                  /\ Len(Live') = Len(Live)
             ELSE IF SnapTarget /\ ~force_new
             THEN /\ Only(calls', StageNames) = SubSeq(StageOrder, 1, 2)
                  /\ Last(calls') = "snap_merge_into_other"
                  /\ "append" \notin {calls'[i] : i \in 1..Len(calls')}
                  /\ Len(Live') = Len(Live)
                  /\ running'
             ELSE IF snap = None /\ ~force_new
             THEN /\ calls' = SubSeq(StageOrder, 1, 2)
                  /\ Len(Live') = Len(Live)
                  /\ ~running'
             ELSE /\ snap = SnapEmpty \/ force_new
                  /\ Only(calls', StageNames) = StageOrder
                  /\ Last(calls') = "append"
                  /\ Len(Live') = Len(Live) + 1
                  /\ Front(Live') = DeselectOthers(Live, 0)]_vars

\* a stroke was released next to a path that has cuts and got a path of its
\* own, appended after the last stage
C22_Witness ==
    /\ last = "new_path_from_draw"
    /\ calls # <<>> /\ Last(calls) = "append"
    /\ Len(Live) = 2
    /\ Live[1].cuts # <<>> /\ Live[2].cuts # <<>>

\* what C23 says of a stroke merged into the snap target: cut_paths keeps its
\* number of paths, the stroke's path is never appended, every path but the
\* target keeps its cuts, and selected_path becomes the merge target
MergedIntoSnap ==
    /\ running'
    /\ Len(Live') = Len(Live)
    /\ "append" \notin {calls'[i] : i \in 1..Len(calls')}
    /\ calls' # <<>> /\ Last(calls') = "snap_merge_into_other"
    /\ IF snap.k \in DeadEnds
       THEN selected_path'.k = "deadpath" /\ SameObject(selected_path', snap)
       ELSE selected_path' = PathRef(snap.p)
    /\ \A i \in 1..Len(Live) :
           (snap.k \in DeadEnds \/ i # snap.p) => Live'[i].cuts = Live[i].cuts

\* C23 as stated: a guide stroke completed while snap holds a [path, end_cut]
\* pair and force_new is False is merged into the snap target: cut_paths
\* keeps its number of paths, the stroke's path is never appended and
\* selected_path becomes the merge target
C23_CompletedStrokeMerges ==
    [][\A hit \in BOOLEAN, k \in {0, ring_count} :
          (new_path_from_draw(hit, k) /\ SnapTarget /\ ~force_new)
          => MergedIntoSnap]_vars

\* C23 amended: a stroke of more than 10 points that hits the surface,
\* released while snap holds a [path, end_cut] pair and force_new is False,
\* is merged into the snap target; a stroke of 10 or fewer points, or one
\* that finds no surface point, is not merged: no path gains, loses or
\* changes a cut, and selected_path stays as it is after a short stroke and
\* becomes None after one that misses the surface
C23_SnapStrokeMerges ==
    [][\A hit \in BOOLEAN, k \in {0, ring_count} :
          (new_path_from_draw(hit, k) /\ SnapTarget /\ ~force_new)
          => IF hit /\ long_stroke(draw_cache)
             THEN MergedIntoSnap
             ELSE /\ running'
                  /\ "snap_merge_into_other" \notin {calls'[i] : i \in 1..Len(calls')}
                  /\ Len(Live') = Len(Live)
                  /\ \A i \in 1..Len(Live) : Live'[i].cuts = Live[i].cuts
                  /\ selected_path' = IF long_stroke(draw_cache) THEN None
                                      ELSE selected_path]_vars

\* a stroke was merged into the second of two paths, at the end cut the
\* mouse had snapped to
C23_Witness ==
    /\ last = "new_path_from_draw"
    /\ calls # <<>> /\ Last(calls) = "snap_merge_into_other"
    /\ Len(Live) = 2
    /\ selected_path = PathRef(2)
    /\ snap.k = "cut" /\ snap.p = 2
    /\ Len(Live[2].cuts) > ring_count

\* |x - y| is at most 5 * 2^-mantissa_bits * |y|: x is y but for the
\* rounding of four float operations
Close(x, y) ==
    IF x.s = 0 \/ y.s = 0 THEN x = y
    ELSE LET e == IF x.e < y.e THEN x.e ELSE y.e
             a == ShiftLeft(x.m, x.e - e)
             b == ShiftLeft(y.m, y.e - e)
             d == IF x.s # y.s THEN BigAdd(a, b)
                  ELSE IF BigLess(a, b) THEN BigSub(b, a)
                  ELSE BigSub(a, b)
         IN  ~BigLess(BigTimes(b, 5), ShiftLeft(d, mantissa_bits))

\* the selected path is in the live list and has ring_lock clear
RingUnlocked == selected_path.k = "path" /\ ~Live[selected_path.p].ring_lock

\* what C24 says of one ring-count event on the selected path: the new count
\* is max(3, old + 1) or max(3, old - 1), every cut's shift is the old one
\* times new / old and every cut has the new count of vertices
RingStep(down) ==
    LET p == selected_path.p
        old == Live[p].ring_segments
        new == IF down THEN (IF old - 1 < 3 THEN 3 ELSE old - 1) ELSE old + 1
    IN  /\ running'
        /\ Len(Live') = Len(Live)
        /\ Live'[p].ring_segments = new
        /\ Len(Live'[p].cuts) = Len(Live[p].cuts)
        /\ \A j \in 1..Len(Live[p].cuts) :
               /\ Live'[p].cuts[j].shift = FMul(FDiv(new, old), Live[p].cuts[j].shift)
               /\ Live'[p].cuts[j].n = new

\* the selected path as a decrement would leave it after this step
Decremented == SetRingSegments(Live'[selected_path.p], TRUE)

\* C24 as stated: a ring-count change on an unlocked selected path sets the
\* count, scales the shifts and resamples the cuts, and a decrement after an
\* increment restores ring_segments and every cut's shift
C24_RingStepAndRoundTrip ==
    [][\A down \in BOOLEAN :
          (LoopRingSegments(down) /\ RingUnlocked)
          => /\ RingStep(down)
             /\ ~down =>
                    /\ Decremented.ring_segments = Live[selected_path.p].ring_segments
                    /\ \A j \in 1..Len(Live[selected_path.p].cuts) :
                           Decremented.cuts[j].shift = Live[selected_path.p].cuts[j].shift]_vars

\* C24 amended: a decrement after an increment restores ring_segments
\* exactly and every cut's shift up to the rounding of the four float
\* operations in between
C24_RingStepAndRoundTripRounded ==
    [][\A down \in BOOLEAN :
          (LoopRingSegments(down) /\ RingUnlocked)
          => /\ RingStep(down)
             /\ ~down =>
                    /\ Decremented.ring_segments = Live[selected_path.p].ring_segments
                    /\ \A j \in 1..Len(Live[selected_path.p].cuts) :
                           Close(Decremented.cuts[j].shift,
                                 Live[selected_path.p].cuts[j].shift)]_vars

\* the ring count of an unlocked path went up by one, and a decrement would
\* bring the shift of a cut back to a float next to the one it had, not to
\* the one it had
C24_Witness ==
    /\ last = "LoopRingSegments"
    /\ running
    /\ RingUnlocked
    /\ pre_action.known
    /\ LET p == selected_path.p
           back == SetRingSegments(Live[p], TRUE)
       IN  /\ Len(pre_action.list) >= p
           /\ Live[p].ring_segments = pre_action.list[p].ring_segments + 1
           /\ Len(pre_action.list[p].cuts) = Len(Live[p].cuts)
           /\ \E j \in 1..Len(Live[p].cuts) :
                  /\ Live[p].cuts[j].n = Live[p].ring_segments
                  /\ back.cuts[j].shift # pre_action.list[p].cuts[j].shift
                  /\ Close(back.cuts[j].shift, pre_action.list[p].cuts[j].shift)


----------------------------------------------------------------------------
(* The mesh cache at invoke *)

\* how often the latest event made the call c
Times(c) == Len(SelectSeq(calls, LAMBDA x : x = c))

\* the first position of the call c in the latest event's calls, 0 if none
First(c) ==
    IF Times(c) = 0 THEN 0
    ELSE CHOOSE i \in 1..Len(calls) : calls[i] = c /\ \A j \in 1..(i - 1) : calls[j] # c

\* is_object_valid is False for every object
NothingValid(c) == \A ob \in Targets : ~is_object_valid(c, ob)

\* C25: invoke loads the cached surface only when the stored fingerprint
\* equals object_validation(target), and then frees nothing and leaves the
\* cache as it is; on a mismatch the cache is cleared, a cached bmesh is
\* freed exactly once, the surface is converted and the cache written for
\* the target; once the cache is cleared is_object_valid is False for every
\* object until an event calls write_mesh_cache.
C25_CacheReusedOnlyWhenValid ==
    [][/\ \A loop \in {0} \cup ExistingLoopSizes, recover \in BOOLEAN,
            target \in Targets, edit \in BOOLEAN, has_tmp \in BOOLEAN :
            invoke(loop, recover, target, edit, has_tmp) =>
                /\ Times("load")' = 1 =>
                      /\ contour_mesh_cache.valid = object_validation(target)
                      /\ contour_mesh_cache.bme
                      /\ Times("free")' = 0
                      /\ contour_mesh_cache' = contour_mesh_cache
                /\ contour_mesh_cache.valid # object_validation(target) =>
                      /\ Times("load")' = 0
                      /\ Times("free")' = (IF contour_mesh_cache.bme THEN 1 ELSE 0)
                      /\ Times("bmesh.new")' = 1
                      /\ Times("write_mesh_cache")' = 1
                      /\ First("clear_mesh_cache")' < First("bmesh.new")'
                      /\ First("bmesh.new")' < First("write_mesh_cache")'
                      /\ contour_mesh_cache'.valid = object_validation(target)
                      /\ contour_mesh_cache'.bme
                      /\ NothingValid(clear_mesh_cache(contour_mesh_cache).cache)
       /\ cache_clear => NothingValid(contour_mesh_cache')
       /\ (NothingValid(contour_mesh_cache) /\ Times("write_mesh_cache")' = 0) =>
              NothingValid(contour_mesh_cache')]_vars

\* a session in edit mode opened on a form edited since the cache was written:
\* three clears, one of them freeing the cached bmesh
C25_Witness ==
    /\ last = "invoke"
    /\ Times("clear_mesh_cache") = 3
    /\ Times("free") = 1
    /\ contour_mesh_cache.valid = object_validation([name |-> "Form", shape |-> 2])


----------------------------------------------------------------------------
(* Selection and references *)

\* the selected cut is one of the cuts of the selected path
SelectedOnSelectedPath ==
    /\ selected_path.k = "path"
    /\ selected.k = "cut"
    /\ selected.p = selected_path.p

\* C26 as stated: in LOOP mode, waiting, with a cut selected, selected_path is
\* a path and the selected cut is one of its cuts
C26_SelectedCutOnSelectedPath ==
    (running /\ mode = "LOOP" /\ modal_state = "WAITING" /\ selected # None)
        => SelectedOnSelectedPath


\* C27 as stated: after every handled event selected_path is None or one of
\* the paths of cut_paths
C27_SelectedPathInCutPaths ==
    running => \/ selected_path = None
               \/ selected_path.k = "path" /\ selected_path.p \in 1..Len(Live)


\* C28 as stated: whenever new_path_from_draw runs with force_new False, snap
\* is the empty list or a [path, end_cut] pair whose path is in cut_paths
C28_SnapWellFormedAtDraw ==
    [][\A hit \in BOOLEAN, k \in {0, ring_count} :
          (new_path_from_draw(hit, k) /\ long_stroke(draw_cache) /\ ~force_new)
          => \/ snap = SnapEmpty
             \/ snap.k \in {"cut", "head"} /\ snap.p \in 1..Len(Live)]_vars


\* C29 as stated: an invoke that does not recover (settings.recover is false
\* or the cached surface is not valid) leaves the undo stack empty
C29_UndoStackEmptyWithoutRecovery ==
    [][\A loop \in {0} \cup ExistingLoopSizes, recover \in BOOLEAN,
          target \in Targets, edit \in BOOLEAN, has_tmp \in BOOLEAN :
          (/\ invoke(loop, recover, target, edit, has_tmp)
           /\ ~(recover /\ is_object_valid(contour_mesh_cache, target)))
          => contour_undo_cache' = <<>>]_vars


----------------------------------------------------------------------------
(* The 3D cursor at the middle of a path *)

\* the middle of n cuts: the middle cut when n is odd, the two middle cuts
\* when it is even
MiddleCuts(n) ==
    IF n % 2 = 1 THEN <<(n - 1) \div 2>> ELSE <<n \div 2 - 1, n \div 2>>

\* C30 as stated: plain S in GUIDE mode on a selected path with at least one
\* cut reads only cut indices within 0..len(cuts)-1 and puts the 3D cursor at
\* the centre of the middle cut when the number of cuts is odd, at the mean of
\* the two middle cuts' centres when it is even
C30_CursorAtMiddleOfPath ==
    [][(GuideCursor /\ selected_path # None
        /\ SelectedPathObj(selected_path).cuts >= 1)
       => LET n == SelectedPathObj(selected_path).cuts
          IN  /\ InRange(cursor_reads(n), n)
              /\ running'
              /\ cursor_cuts' = MiddleCuts(n)]_vars


----------------------------------------------------------------------------
(* Paths, gestures and the session's resources *)

\* C31 as stated: after every handled event each path of cut_paths has at
\* least one cut or an existing head
C31_NoEmptyPath ==
    running => \A i \in 1..Len(Live) : Live[i].cuts # <<>> \/ Live[i].existing_head


\* the gesture states and the label each is entered with
Gestures == {"DRAWING", "CUTTING", "HOTKEY_TRANSFORM", "WIDGET_TRANSFORM"}
GestureLabel(state) == IF state = "DRAWING" THEN "DRAW_PATH" ELSE state

\* the labels of the undo stack, oldest first
Labels(cache) == [i \in 1..Len(cache) |-> cache[i].action]

\* C32: every snapshot on the undo stack was taken while modal_state was
\* WAITING, a step that puts a new label on the stack starts in WAITING, and
\* every step from WAITING into DRAWING, CUTTING, HOTKEY_TRANSFORM or
\* WIDGET_TRANSFORM leaves on top of the stack a snapshot with the gesture's
\* label that holds the paths and the state WAITING the event found
C32_SnapshotBeforeGesture ==
    [][/\ \A i \in 1..Len(contour_undo_cache') :
              contour_undo_cache'[i].state.modal_state = "WAITING"
       /\ (/\ Labels(contour_undo_cache') # Labels(contour_undo_cache)
           /\ Labels(contour_undo_cache') # Front(Labels(contour_undo_cache)))
          => (running /\ modal_state = "WAITING")
       /\ (running /\ modal_state = "WAITING" /\ running' /\ modal_state' \in Gestures)
          => /\ contour_undo_cache' # <<>>
             /\ Last(contour_undo_cache').action = GestureLabel(modal_state')
             /\ Last(contour_undo_cache').state.modal_state = "WAITING"
             /\ Last(contour_undo_cache').state.mode = mode
             /\ heap'[Last(contour_undo_cache').cut_data].list = Live]_vars

\* a widget transform was entered on a placed cut and its snapshot is on top
\* of the stack
C32_Witness ==
    /\ running /\ modal_state = "WIDGET_TRANSFORM"
    /\ last = "LoopWidgetGrab"
    /\ Last(contour_undo_cache).action = "WIDGET_TRANSFORM"
    /\ heap[Last(contour_undo_cache).cut_data].list = Live
    /\ Len(Live) > 0


\* C33 as stated: mode changes only in an event that finds modal_state
\* WAITING; DRAWING occurs only in mode GUIDE, and CUTTING, HOTKEY_TRANSFORM
\* and WIDGET_TRANSFORM occur only in mode LOOP
C33_ModeChangesOnlyWaiting ==
    [][/\ (running /\ running' /\ mode' # mode) => modal_state = "WAITING"
       /\ running' =>
             /\ modal_state' = "DRAWING" => mode' = "GUIDE"
             /\ modal_state' \in {"CUTTING", "HOTKEY_TRANSFORM", "WIDGET_TRANSFORM"}
                    => mode' = "LOOP"]_vars

\* C33 amended: mode changes only by TAB in an event that finds modal_state
\* WAITING, or by an undo, which restores the mode of the snapshot it pops
\* together with modal_state WAITING whatever modal_state it found; DRAWING
\* occurs only in mode GUIDE, and CUTTING, HOTKEY_TRANSFORM and
\* WIDGET_TRANSFORM occur only in mode LOOP
C33_ModeChangesByTabOrUndo ==
    [][/\ (running /\ running' /\ mode' # mode) =>
             \/ (LoopTab \/ GuideTab) /\ modal_state = "WAITING"
             \/ /\ KeyUndo
                /\ contour_undo_cache # <<>>
                /\ mode' = Last(contour_undo_cache).state.mode
                /\ modal_state' = "WAITING"
       /\ running' =>
             /\ modal_state' = "DRAWING" => mode' = "GUIDE"
             /\ modal_state' \in {"CUTTING", "HOTKEY_TRANSFORM", "WIDGET_TRANSFORM"}
                    => mode' = "LOOP"]_vars

\* a stroke is being drawn in GUIDE mode in a session that took a snapshot
\* in LOOP mode before
C33_Witness ==
    /\ running /\ modal_state = "DRAWING" /\ mode = "GUIDE"
    /\ \E i \in 1..Len(contour_undo_cache) : contour_undo_cache[i].state.mode = "LOOP"


\* C34 as stated: draw_cache is empty whenever modal_state is WAITING, and a
\* LEFTMOUSE RELEASE while DRAWING empties draw_cache and returns modal_state
\* to WAITING whether or not a path was created
C34_DrawCacheEmptyWhenWaiting ==
    [][/\ (running' /\ modal_state' = "WAITING") => draw_cache' = 0
       /\ DrawRelease => (running' /\ draw_cache' = 0 /\ modal_state' = "WAITING")]_vars


\* the latest event set post_update
PostUpdate == \E i \in 1..Len(calls) : calls[i] = "post_update"

\* while NAVIGATING nothing but an undo changes the paths or the selection
QuietWhileNavigating ==
    (running /\ modal_state = "NAVIGATING" /\ ~KeyUndo)
        => (Live' = Live /\ UNCHANGED <<cut_paths, selected, selected_path>>)

\* C35 as stated: modal_state becomes NAVIGATING only from WAITING by a
\* navigation event and leaves NAVIGATING only to WAITING by a navigation
\* event, both transitions set post_update, and while NAVIGATING no event
\* other than an undo changes cut_paths, selected or selected_path
C35_NavigatingFromAndToWaiting ==
    [][/\ (running' /\ modal_state' = "NAVIGATING" /\ modal_state # "NAVIGATING")
          => (running /\ modal_state = "WAITING" /\ NavigateStart /\ PostUpdate')
       /\ (running /\ modal_state = "NAVIGATING" /\ modal_state' # "NAVIGATING")
          => (modal_state' = "WAITING" /\ NavigateEnd /\ PostUpdate')
       /\ QuietWhileNavigating]_vars

\* C35 amended: as C35, but NAVIGATING is also left, to WAITING, by an undo
\* that pops a snapshot, and that transition does not set post_update
C35_NavigatingLeftByUndoToo ==
    [][/\ (running' /\ modal_state' = "NAVIGATING" /\ modal_state # "NAVIGATING")
          => (running /\ modal_state = "WAITING" /\ NavigateStart /\ PostUpdate')
       /\ (running /\ modal_state = "NAVIGATING" /\ modal_state' # "NAVIGATING")
          => /\ modal_state' = "WAITING"
             /\ \/ NavigateEnd /\ PostUpdate'
                \/ KeyUndo /\ contour_undo_cache # <<>> /\ ~PostUpdate'
       /\ QuietWhileNavigating]_vars

\* a navigation over a session with a path in it has ended by the release of
\* the key
C35_Witness ==
    /\ running /\ last = "NavigateEnd" /\ modal_state = "WAITING"
    /\ PostUpdate
    /\ Len(Live) > 0


\* the latest event called contour_utilities.callback_cleanup
CleanedUp == \E i \in 1..Len(calls) : calls[i] = "callback_cleanup"

\* C36: ESC or the right mouse button pressed while modal_state is WAITING, in
\* either mode, ends the session with CANCELLED: the draw callback and the
\* session's timer are removed, and nothing is pushed into the destination mesh
C36_EscOrRightMouseCancels ==
    [][\A type \in CancelInputs :
          Cancel(type) =>
              /\ ~running'
              /\ result' = "CANCELLED"
              /\ CleanedUp'
              /\ ~timer'
              /\ wm_timers' = IF timer THEN wm_timers - 1 ELSE wm_timers
              /\ dest_bme' = dest_bme]_vars


\* C37: at most one message timer is registered at any time, an expired timer
\* is gone after the next TIMER event, and when modal returns CANCELLED or
\* FINISHED no timer is left registered
C37_AtMostOneTimer ==
    [][/\ wm_timers' <= 1
       /\ Timer(TRUE) => ~timer' /\ wm_timers' = 0
       /\ (running /\ result' \in {"CANCELLED", "FINISHED"}) => wm_timers' = 0]_vars

====
